---- MODULE Spec2Model ----
(***************************************************************************)
(* Model of the surgical-guide core of Park929:                            *)
(*   core/mesh_preprocess.py   preprocess_for_boolean                      *)
(*   core/guide_generator.py   robust_boolean_difference and its helpers   *)
(*   core/manufacturing_qc.py  the QC battery and qc_summary               *)
(*   core/mesh_preprocess.py   is_watertight, detect_self_intersections    *)
(*   validation_suite/         the metrics and the batch validation runner *)
(*   reasoning_engine.py       run_engine                                  *)
(* The geometry kernel (vtk) and the filesystem are opaque: every call     *)
(* into them is a nondeterministic choice over the outcomes they can have. *)
(* The validation dataset is read-only and does not change under a run;    *)
(* the runner's two report files go to the working directory of the        *)
(* process, which is taken to be writable.                                 *)
(***************************************************************************)
EXTENDS Integers, Sequences, FiniteSets, TLC

VARIABLES
    vtk,            \* TRUE iff "import vtk" succeeded (module global vtk is not None)
    pp_pc,          \* preprocess_for_boolean driver: "start" | "done"
    pp_in,          \* the polydata handed to preprocess_for_boolean
    pp_out,         \* the value preprocess_for_boolean returned
    pp_trace,       \* per stage that ran: what it saw, whether it raised, what was kept
    \* ---- robust_boolean_difference (one call at a time, calls in sequence)
    pc,             \* position inside robust_boolean_difference / _save_failure_bundle
    call,           \* number of the current (or last) call
    base,           \* argument base
    subtract,       \* argument subtract
    base_pp,        \* local base_pp
    subtract_pp,    \* local subtract_pp
    debug_parts,    \* local dict debug_parts
    result,         \* what the call returned (status "none" while running or after a raise)
    bundle_dir,     \* local bundle_dir of _save_failure_bundle: its timestamp, -1 before
    artifacts,      \* local dict artifacts of _save_failure_bundle
    clock,          \* wall clock in whole seconds (the resolution of the stamp format)
    fs_root,        \* logs/guide_failures exists
    fs_dirs,        \* timestamps t for which logs/guide_failures/failure_<t> exists
    fs_files,       \* files on disk: [dir, name, by]; by = the call that wrote it last
    fs_lost,        \* files of an earlier call that a later call has overwritten
    fallbacks,      \* per call that returned fallback so far: [call, dir]
    tried,          \* the boolean attempts the current call has made: [label, raised, output]
    \* ---- manufacturing QC: the caller's objects and what the calls returned
    qc_mesh,        \* the guide mesh the caller holds
    qc_implants,    \* the implant list the caller holds: [absent, items]
    qc_args,        \* copy of (mesh, implants) taken when the caller built them
    qc_calls,       \* number of qc_summary calls made so far
    qc_first,       \* what the first qc_summary call returned
    qc_out,         \* what the latest qc_summary call returned
    qc_ret,         \* what the latest call of a single check returned
    \* ---- validation metrics called on their own
    dev_plan,       \* argument plan of compute_implant_deviation
    dev_truth,      \* argument ground_truth of compute_implant_deviation
    dev_out,        \* what compute_implant_deviation returned
    margin_in,      \* argument min_distance of compute_safety_margin
    margin_out,     \* what compute_safety_margin returned
    \* ---- the validation runner (python -m validation_suite.runner, run after run)
    argv_validate,  \* the --validate option: "absent" | "empty" (value "") | "path"
    dataset,        \* the dataset directory on disk: [exists, subdirs]
    rv_pc,          \* position inside main / run_validation
    rv_run,         \* number of the current (or last) process run
    case_dirs,      \* local case_dirs of run_validation
    rv_idx,         \* position of the for loop in case_dirs
    case_data,      \* local case_data
    metrics,        \* local metrics
    passed,         \* local passed
    results,        \* local results
    csv_file,       \* validation_summary.csv on disk
    html_file,      \* validation_suite/reports/validation_report.html on disk
    csv_first,      \* validation_summary.csv as the first run left it
    help_printed,   \* the current run printed the usage text
    rv_raised,      \* the exception the current run ended with, "none" if none
    exit_code,      \* what main returned in the current run, -1 before
    \* ---- mesh diagnostics
    trimesh,        \* TRUE iff "import trimesh" succeeded
    diag_mesh,      \* the mesh handed to the diagnostics
    wt_ret,         \* what is_watertight returned
    si_ret,         \* what detect_self_intersections returned
    \* ---- reasoning engine: one run_engine call
    eng_pc,         \* position inside run_engine
    eng_facts,      \* argument facts
    eng_rules,      \* argument rules
    eng_required,   \* argument required_fields
    eng_idx,        \* position of the for loop of evaluate_rules
    eng_evaluated,  \* indices of the rules whose condition has been called, in call order
    eng_result,     \* local result of evaluate_rules
    eng_raised,     \* the exception run_engine ended with, "none" if none
    \* ---- run_full_pipeline called on one case record, and its verdict
    pl_case,        \* argument case_data
    pl_cbct,        \* TRUE iff the case directory on disk has a cbct subdirectory
    pl_out,         \* what run_full_pipeline returned: [pending, raised, metrics]
    pl_passed       \* the verdict computed from the returned metrics: <<>> before

pre_vars == <<pp_pc, pp_in, pp_out, pp_trace>>

guide_vars == <<pc, call, base, subtract, base_pp, subtract_pp, debug_parts, result,
                bundle_dir, artifacts, clock, fs_root, fs_dirs, fs_files, fs_lost, fallbacks,
                tried>>

qc_vars == <<qc_mesh, qc_implants, qc_args, qc_calls, qc_first, qc_out, qc_ret>>

metric_vars == <<dev_plan, dev_truth, dev_out, margin_in, margin_out>>

run_vars == <<argv_validate, dataset, rv_pc, rv_run, case_dirs, rv_idx, case_data, metrics,
              passed, results, csv_file, html_file, csv_first, help_printed, rv_raised,
              exit_code>>

diag_vars == <<trimesh, diag_mesh, wt_ret, si_ret>>

engine_vars == <<eng_pc, eng_facts, eng_rules, eng_required, eng_idx, eng_evaluated,
                 eng_result, eng_raised>>

pipe_vars == <<pl_case, pl_cbct, pl_out, pl_passed>>

\* Everything outside the guide core: the metrics, the runner, the diagnostics, the engine.
rest_vars == <<metric_vars, run_vars, diag_vars, engine_vars, pipe_vars>>

vars == <<vtk, pre_vars, guide_vars, qc_vars, rest_vars>>

----------------------------------------------------------------------------
(* Meshes.  A value handed around as "polydata" is a record                *)
(*   src : where it came from                                              *)
(*   ops : the kernel filters applied to it so far, in order               *)
(*   pts : "some"   GetNumberOfPoints() > 0                                *)
(*         "empty"  GetNumberOfPoints() = 0                                *)
(*         "noattr" a non-mesh placeholder (no GetNumberOfPoints)          *)
(*         "none"   Python None                                            *)

None == [src |-> "None", ops |-> <<>>, pts |-> "none"]

IsNone(m) == m.pts = "none"

RawMesh(name) == [src |-> name, ops |-> <<>>, pts |-> "some"]

Placeholder(name) == [src |-> name, ops |-> <<>>, pts |-> "noattr"]
\* Mutant: any mesh object counts, also one without points.
is_non_empty_polydata_any_points(polydata) ==
    ~IsNone(polydata) /\ polydata.pts # "noattr"

\* guide_generator.py:39-40
is_non_empty_polydata(polydata) ==
    ~IsNone(polydata) /\ polydata.pts # "noattr" /\ polydata.pts = "some"

----------------------------------------------------------------------------
(* core/manufacturing_qc.py                                                *)
(* Lengths are integers in units of 0.1 mm; a value rounded with           *)
(* round(x, 3) is an integer number of thousandths.                        *)

Abs(x) == IF x < 0 THEN -x ELSE x

Min2(a, b) == IF a <= b THEN a ELSE b

Max2(a, b) == IF a >= b THEN a ELSE b

SetMin(S) == CHOOSE x \in S : \A y \in S : x <= y

\* floor(sqrt(x)) by bisection on lo..hi, with lo*lo <= x < (hi+1)*(hi+1).
RECURSIVE ISqrtIn(_, _, _)
ISqrtIn(x, lo, hi) ==
    IF lo >= hi THEN lo
    ELSE LET mid == (lo + hi + 1) \div 2
         IN  IF mid * mid <= x THEN ISqrtIn(x, mid, hi) ELSE ISqrtIn(x, lo, mid - 1)

\* sqrt(x) rounded to the nearest integer.
RoundSqrt(x) ==
    LET r == ISqrtIn(x, 0, Min2(x, 46000))
    IN  IF (2 * r + 1) * (2 * r + 1) <= 4 * x THEN r + 1 ELSE r

\* round(n / d, 3) in thousandths, for n >= 0 and d > 0.
RoundRatio3(n, d) == (2000 * n + d) \div (2 * d)

\* A QC result before any call has returned.
NoQcOutput == [passes |-> FALSE, pending |-> TRUE]

\* ---- the meshes handed to the QC functions:
\*   kind    "none" (None) | "placeholder" (no GetBounds, no vtk object) | "mesh"
\*   bounds  GetBounds(): <<x0, x1, y0, y1, z0, z1>>
\*   normals what vtkPolyDataNormals yields on it: "raise", or the z component
\*           (in tenths) of each point normal ("tuples"; none: GetNormals() is None)
QcMeshOf(kind, bounds, nkind, nz) ==
    [kind |-> kind, bounds |-> bounds, normals |-> [kind |-> nkind, nz |-> nz]]

ZeroBounds == <<0, 0, 0, 0, 0, 0>>

\* n point normals of which k point against the build axis (nz = -1.0), one
\* sits on the threshold (nz = -0.2) and the rest point up.
NormalsWith(n, k) == [i \in 1..n |-> IF i <= k THEN -10 ELSE IF i = k + 1 THEN -2 ELSE 10]

QcMeshes ==
    { QcMeshOf("none", ZeroBounds, "none", <<>>),
      QcMeshOf("placeholder", ZeroBounds, "raise", <<>>),
      \* 30 x 25 x 2 mm plate, no undercut
      QcMeshOf("mesh", <<0, 300, 0, 250, 0, 20>>, "tuples", NormalsWith(20, 6)),
      \* the same plate, 1 mm thick, 7 of 20 normals backward (risk 0.35)
      QcMeshOf("mesh", <<0, 300, -100, 150, 5, 15>>, "tuples", NormalsWith(20, 7)),
      \* a flat sheet (zero z extent), no normals produced
      QcMeshOf("mesh", <<0, 300, 0, 250, 7, 7>>, "none", <<>>),
      \* a 10 x 10 x 40 mm post, normal computation raises
      QcMeshOf("mesh", <<0, 100, 0, 100, 0, 400>>, "raise", <<>>),
      \* a 30 x 25 x 60 mm block: slender, heavy undercut
      QcMeshOf("mesh", <<0, 300, 0, 250, 0, 600>>, "tuples", NormalsWith(4, 3)),
      \* a mesh without points: GetBounds() gives the kernel's uninitialised
      \* bounds (1, -1, 1, -1, 1, -1), and no normals are produced
      QcMeshOf("mesh", <<10, -10, 10, -10, 10, -10>>, "none", <<>>) }

\* manufacturing_qc.py:15-20
polydata_bounds(polydata) ==
    IF polydata.kind = "mesh" THEN polydata.bounds ELSE ZeroBounds

\* 1.5 mm
MinThickness == 15

\* manufacturing_qc.py:23-33
minimum_thickness(polydata) ==
    LET b == polydata_bounds(polydata)
        dims == {Abs(b[2] - b[1]), Abs(b[4] - b[3]), Abs(b[6] - b[5])}
        dims_non_zero == {d \in dims : d > 0}
        estimated_min == IF dims_non_zero # {} THEN SetMin(dims_non_zero) ELSE 0
    IN  [minimum_thickness_mm |-> 100 * estimated_min,
         passes |-> estimated_min >= MinThickness]

\* ---- implants: a dict with optional keys; an optional value is <<v>> or <<>>.
ImplantOf(position, radius) == [position |-> position, sleeve_radius_mm |-> radius]

\* 2.5 mm
DefaultSleeveRadius == 25

\* implants[i].get("position", [0.0, 0.0, 0.0])
position_of(implant) ==
    IF implant.position = <<>> THEN <<0, 0, 0>> ELSE implant.position[1]

\* float(implants[i].get("sleeve_radius_mm", 2.5))
radius_of(implant) ==
    IF implant.sleeve_radius_mm = <<>> THEN DefaultSleeveRadius ELSE implant.sleeve_radius_mm[1]

\* The square of math.dist(p1, p2).
dist_squared(p1, p2) ==
    (p1[1] - p2[1]) * (p1[1] - p2[1]) + (p1[2] - p2[2]) * (p1[2] - p2[2])
        + (p1[3] - p2[3]) * (p1[3] - p2[3])

\* round(math.dist(p1, p2), 3) in thousandths of a millimetre.
rounded_distance(p1, p2) == RoundSqrt(10000 * dist_squared(p1, p2))

\* Mutant: the boundary counts as a collision (<= for <).
sleeves_overlap_inclusive(p1, r1, p2, r2) ==
    \/ r1 + r2 > 0 /\ dist_squared(p1, p2) <= (r1 + r2) * (r1 + r2)
    \/ r1 + r2 = 0 /\ dist_squared(p1, p2) = 0

\* Mutant: the first sleeve's radius is used for both implants.
sleeves_overlap_first_radius(p1, r1, p2, r2) ==
    r1 > 0 /\ dist_squared(p1, p2) < (r1 + r1) * (r1 + r1)

\* manufacturing_qc.py:48-49: dist < (r1 + r2), on squares (dist >= 0).
sleeves_overlap(p1, r1, p2, r2) ==
    r1 + r2 > 0 /\ dist_squared(p1, p2) < (r1 + r2) * (r1 + r2)

\* The inner loop, j = from..len-1 (0-based indices in the entries).
RECURSIVE collisions_inner(_, _, _)
collisions_inner(items, i, j) ==
    IF j > Len(items) THEN <<>>
    ELSE LET p1 == position_of(items[i])
             p2 == position_of(items[j])
             hit == sleeves_overlap(p1, radius_of(items[i]), p2, radius_of(items[j]))
         IN  (IF hit THEN <<[implant_a |-> i - 1, implant_b |-> j - 1,
                             distance |-> rounded_distance(p1, p2)]>>
              ELSE <<>>) \o collisions_inner(items, i, j + 1)

\* The outer loop, i = from..len-1.
RECURSIVE collisions_from(_, _)
collisions_from(items, i) ==
    IF i > Len(items) THEN <<>>
    ELSE collisions_inner(items, i, i + 1) \o collisions_from(items, i + 1)

\* Mutant: the collisions list lives across calls and is never cleared.
sleeve_collision_check_accumulating(implants) ==
    LET items == IF implants.absent THEN <<>> ELSE implants.items
        kept == IF qc_calls > 0 THEN qc_out.sleeve_collision.collisions ELSE <<>>
        collisions == kept \o collisions_from(items, 1)
    IN  [passes |-> Len(collisions) = 0, collisions |-> collisions]

\* manufacturing_qc.py:36-55
sleeve_collision_check(implants) ==
    LET items == IF implants.absent THEN <<>> ELSE implants.items
        collisions == collisions_from(items, 1)
    IN  [passes |-> Len(collisions) = 0, collisions |-> collisions]

\* nz < -0.2, in tenths
BackwardNz == -2

\* risk < 0.35, in hundredths
MaxUndercutRisk == 35

\* Mutant: a risk of exactly 0.35 passes.
undercut_detection_inclusive(polydata) ==
    LET fail_open == [undercut_risk |-> 0, passes |-> TRUE]
        normal_data == polydata.normals
    IN  IF ~vtk \/ polydata.kind = "none" THEN fail_open
        ELSE IF polydata.kind = "placeholder" \/ normal_data.kind = "raise" THEN fail_open
        ELSE IF normal_data.kind = "none" \/ Len(normal_data.nz) = 0 THEN fail_open
        ELSE LET total == Len(normal_data.nz)
                 backward == Cardinality({idx \in 1..total : normal_data.nz[idx] < BackwardNz})
             IN  [undercut_risk |-> RoundRatio3(backward, total),
                  passes |-> 100 * backward <= MaxUndercutRisk * total]

\* manufacturing_qc.py:58-84
undercut_detection(polydata) ==
    LET fail_open == [undercut_risk |-> 0, passes |-> TRUE]
        normal_data == polydata.normals
    IN  IF ~vtk \/ polydata.kind = "none" THEN fail_open
        ELSE IF polydata.kind = "placeholder" \/ normal_data.kind = "raise" THEN fail_open
        ELSE IF normal_data.kind = "none" \/ Len(normal_data.nz) = 0 THEN fail_open
        ELSE LET total == Len(normal_data.nz)
                 backward == Cardinality({idx \in 1..total : normal_data.nz[idx] < BackwardNz})
             IN  [undercut_risk |-> RoundRatio3(backward, total),
                  passes |-> 100 * backward < MaxUndercutRisk * total]

\* 600 mm^2, in (0.1 mm)^2
FullFootprint == 60000

\* manufacturing_qc.py:87-105.  With width w, depth d, height h (floored at 1e-6 mm)
\* and m = max(w, d):  score = min(1, w*d/600) * (1 - 0.5 * clamp((h/m - 1.2)/1.8)),
\* passes iff score >= 0.6.  A zero width or depth makes the footprint at most
\* 1e-6 * 60 mm^2, so the score rounds to 0.0; otherwise the 1e-6 floor on h
\* leaves the penalty at 0.  Extents stay below 100 mm, so no product overflows.
printable_orientation_score(polydata) ==
    LET b == polydata_bounds(polydata)
        w == Abs(b[2] - b[1])
        d == Abs(b[4] - b[3])
        h == Abs(b[6] - b[5])
        m == Max2(w, d)
        footprint == Min2(w * d, FullFootprint)
        penalty18m == Max2(0, Min2(18 * m, 10 * h - 12 * m))
        keep36m == 36 * m - penalty18m
        \* score = num / (60000 * 36 * m); in thousandths, num / (2160 * m)
        num == footprint * keep36m
    IN  IF w = 0 \/ d = 0 THEN [score |-> 0, passes |-> FALSE]
        ELSE [score |-> (num + 1080 * m) \div (2160 * m),
              passes |-> num >= 1296000 * m]

\* Mutant: the orientation result is left out of the conjunction.
qc_summary_without_orientation(polydata, implants) ==
    LET thickness == minimum_thickness(polydata)
        sleeve == sleeve_collision_check(implants)
        undercut == undercut_detection(polydata)
        orientation == printable_orientation_score(polydata)
    IN  [minimum_thickness |-> thickness, sleeve_collision |-> sleeve,
         undercut |-> undercut, printable_orientation |-> orientation,
         passes |-> thickness.passes /\ sleeve.passes /\ undercut.passes]

\* manufacturing_qc.py:108-129
qc_summary(polydata, implants) ==
    LET thickness == minimum_thickness(polydata)
        sleeve == sleeve_collision_check(implants)
        undercut == undercut_detection(polydata)
        orientation == printable_orientation_score(polydata)
    IN  [minimum_thickness |-> thickness, sleeve_collision |-> sleeve,
         undercut |-> undercut, printable_orientation |-> orientation,
         passes |-> thickness.passes /\ sleeve.passes /\ undercut.passes /\ orientation.passes]

QcIdle ==
    /\ qc_mesh = QcMeshOf("none", ZeroBounds, "none", <<>>)
    /\ qc_implants = [absent |-> TRUE, items |-> <<>>]
    /\ qc_args = <<qc_mesh, qc_implants>>
    /\ qc_calls = 0
    /\ qc_first = NoQcOutput
    /\ qc_out = NoQcOutput
    /\ qc_ret = NoQcOutput

----------------------------------------------------------------------------
(* validation_suite/metrics/accuracy.py                                    *)
(* Coordinates are integers in units of 0.01 mm; an rmse or a canal        *)
(* distance is an integer number of thousandths of a millimetre.           *)

\* The nearest integer to sqrt(n / d), for n >= 0 and d > 0.
RoundSqrtRatio(n, d) ==
    LET r == ISqrtIn(n \div d, 0, Min2(n \div d, 46000))
    IN  IF d * (2 * r + 1) * (2 * r + 1) <= 4 * n THEN r + 1 ELSE r

\* An implant centroid as a mapping: each of x, y, z is <<v>>, or <<>> when the
\* key is missing.
PointOf(x, y, z) == [x |-> x, y |-> y, z |-> z]

\* A Python value handed over as an implant list.  numeric = FALSE marks a list
\* with an entry that is not a mapping of numbers (its .get or float() raises).
ListOf(items) == [is_list |-> TRUE, numeric |-> TRUE, items |-> items]

NotAList == [is_list |-> FALSE, numeric |-> TRUE, items |-> <<>>]

\* A float that is no finite number: NaN, or an infinity.  json.loads reads the
\* tokens NaN and Infinity, and float() keeps them.  Every sum, difference and
\* product the metrics take of such a value is not finite either (inf - inf and
\* every operation on NaN give NaN), and its comparison "<= finite bound" is
\* false (the values the metrics compare are sums of squares, never -inf).
NotFinite == 1000000000

\* a + b, a - b, a * b in float arithmetic
float_add(a, b) == IF a = NotFinite \/ b = NotFinite THEN NotFinite ELSE a + b

float_sub(a, b) == IF a = NotFinite \/ b = NotFinite THEN NotFinite ELSE a - b

float_mul(a, b) == IF a = NotFinite \/ b = NotFinite THEN NotFinite ELSE a * b

\* a <= b for floats
float_le(a, b) == a # NotFinite /\ b # NotFinite /\ a <= b

\* accuracy.py:27-28  float(p.get(key, 0.0))
coordinate(p, key) == IF p[key] = <<>> THEN 0 ELSE p[key][1]

\* accuracy.py:27-30
squared_distance(p, g) ==
    LET dx == float_sub(coordinate(p, "x"), coordinate(g, "x"))
        dy == float_sub(coordinate(p, "y"), coordinate(g, "y"))
        dz == float_sub(coordinate(p, "z"), coordinate(g, "z"))
    IN  float_add(float_add(float_mul(dx, dx), float_mul(dy, dy)), float_mul(dz, dz))

\* accuracy.py:22-31, the loop from idx on (idx is 1-based here)
RECURSIVE error_sum_from(_, _, _, _)
error_sum_from(plan, ground_truth, idx, count) ==
    IF idx > count THEN 0
    ELSE float_add(squared_distance(plan[idx], ground_truth[idx]),
                   error_sum_from(plan, ground_truth, idx + 1, count))

\* math.sqrt(error_sum / count) in thousandths, error_sum being in (0.01 mm)^2
root_mean(error_sum, count) ==
    IF error_sum = NotFinite THEN NotFinite ELSE RoundSqrtRatio(100 * error_sum, count)

\* Mutant: the mean is taken over the length of the plan.
compute_implant_deviation_over_plan(plan, ground_truth) ==
    IF ~plan.is_list \/ ~ground_truth.is_list THEN 0
    ELSE IF Len(plan.items) = 0 \/ Len(ground_truth.items) = 0 THEN 0
    ELSE LET count == Min2(Len(plan.items), Len(ground_truth.items))
             error_sum == error_sum_from(plan.items, ground_truth.items, 1, count)
         IN  root_mean(error_sum, Len(plan.items))

\* accuracy.py:9-33.  The entries are mappings of numbers: in the runner the
\* planner converts every ground-truth entry with the same calls first.
\* error_sum is in (0.01 mm)^2, so 100 * error_sum / count is the mean in
\* (0.001 mm)^2 and its root is the rmse in thousandths.
compute_implant_deviation(plan, ground_truth) ==
    IF ~plan.is_list \/ ~ground_truth.is_list THEN 0
    ELSE IF Len(plan.items) = 0 \/ Len(ground_truth.items) = 0 THEN 0
    ELSE LET count == Min2(Len(plan.items), Len(ground_truth.items))
             error_sum == error_sum_from(plan.items, ground_truth.items, 1, count)
         IN  IF count = 0 THEN 0 ELSE root_mean(error_sum, count)

\* A number handed to float(): a float (value in thousandths) or an int (whole mm).
FloatArg(value) == [kind |-> "float", value |-> value]

IntArg(value) == [kind |-> "int", value |-> value]

\* accuracy.py:39  float(min_distance), in thousandths
to_float(number) == IF number.kind = "int" THEN 1000 * number.value ELSE number.value

\* 2.0 mm, in thousandths
SafeCanalDistance == 2000

\* Mutant: the margin is not floored at zero.
compute_safety_margin_unclamped(min_distance) ==
    LET distance == to_float(min_distance)
    IN  [min_distance |-> distance,
         safety_margin |-> distance - SafeCanalDistance,
         is_safe |-> distance >= SafeCanalDistance]

\* accuracy.py:36-44
compute_safety_margin(min_distance) ==
    LET distance == to_float(min_distance)
    IN  [min_distance |-> distance,
         safety_margin |-> Max2(distance - SafeCanalDistance, 0),
         is_safe |-> distance >= SafeCanalDistance]

\* What the caller holds before compute_implant_deviation has returned.
NoDeviation == [pending |-> TRUE, value |-> 0]

\* What the caller holds before compute_safety_margin has returned.
NoMargin ==
    [pending |-> TRUE, value |-> [min_distance |-> 0, safety_margin |-> 0, is_safe |-> FALSE]]

MetricsIdle ==
    /\ dev_plan = NotAList
    /\ dev_truth = NotAList
    /\ dev_out = NoDeviation
    /\ margin_in = FloatArg(0)
    /\ margin_out = NoMargin

----------------------------------------------------------------------------
(* validation_suite/config.py, dataset_loader.py, runner.py                *)

\* config.py:6-15.  The dataclass is frozen: the thresholds are constants.
\* max_rmse and min_canal_distance in thousandths of a millimetre,
\* min_guide_success_rate in hundredths.
THRESHOLDS == [max_rmse |-> 1500, min_canal_distance |-> 2000, min_guide_success_rate |-> 95]

\* A directory of the dataset:
\*   name     its name (the case id)
\*   cbct     it has a cbct subdirectory
\*   ios      <<path>> of the first scan file matching the patterns, <<>> if none
\*   gt_file  ground_truth_implants.json: "absent" | "broken" (not JSON) | "list"
\*   gt       the list in the file
DirOf(name, cbct, ios, gt_file, gt) ==
    [name |-> name, cbct |-> cbct, ios |-> ios, gt_file |-> gt_file, gt |-> gt]

\* A list with an entry that is no mapping of numbers, such as [5] or [{"x": null}].
BadEntries == [is_list |-> TRUE, numeric |-> FALSE, items |-> <<PointOf(<<>>, <<>>, <<>>)>>]

\* The case directories a dataset can hold, in sorted name order.
CasePool ==
    << DirOf("case_001", TRUE, <<"ios.stl">>, "list",
             ListOf(<<PointOf(<<100>>, <<200>>, <<300>>)>>)),
       DirOf("case_002", FALSE, <<"scan_ios.stl">>, "list",
             ListOf(<<PointOf(<<-150>>, <<0>>, <<40>>), PointOf(<<150>>, <<0>>, <<40>>)>>)),
       DirOf("case_012", TRUE, <<>>, "list",
             ListOf(<<PointOf(<<0>>, <<0>>, <<0>>)>>)),
       DirOf("case_015", TRUE, <<"ios.stl">>, "list", BadEntries),
       DirOf("case_020", FALSE, <<"jaw.ply">>, "list",
             ListOf(<<PointOf(<<50>>, <<-20>>, <<>>)>>)),
       DirOf("case_024", TRUE, <<"ios.stl">>, "absent", ListOf(<<>>)),
       DirOf("case_029", TRUE, <<"ios.stl">>, "broken", ListOf(<<>>)) >>

\* The dataset root, which is the one case when it has no subdirectory.
RootDir ==
    DirOf("dataset", FALSE, <<"ios.stl">>, "list", ListOf(<<PointOf(<<0>>, <<10>>, <<20>>)>>))

\* Directory number i of the dataset: 0 is the root itself.
DirOnDisk(i) == IF i = 0 THEN RootDir ELSE CasePool[i]

\* runner.py:18-20.  int(md5(case_id).hexdigest()[:8], 16), reduced modulo 56:
\* the runner uses the seed modulo 2, 7 and 8 only, and the full value exceeds
\* 32 bits (case_001 hashes to 1744438688, case_002 to 3984057931, ...).  The
\* table holds the directory names of CasePool, the root, the default id
\* "unknown", and for every residue modulo 56 the first case_NNN that has it.
SeedOf ==
    [case_001 |-> 48, case_002 |-> 35, case_003 |-> 32, case_004 |-> 27, case_005 |-> 28,
     case_006 |-> 18, case_007 |-> 55, case_008 |-> 14, case_009 |-> 40, case_010 |-> 54,
     case_012 |-> 44, case_015 |-> 10, case_016 |-> 37, case_017 |-> 41, case_018 |-> 20,
     case_020 |-> 36, case_021 |-> 42, case_022 |-> 34, case_023 |-> 12, case_024 |-> 50,
     case_027 |-> 49, case_028 |-> 13, case_029 |-> 31, case_030 |-> 46, case_031 |-> 17,
     case_033 |-> 38, case_038 |-> 51, case_039 |-> 1, case_041 |-> 53, case_042 |-> 22,
     case_044 |-> 0, case_048 |-> 16, case_049 |-> 25, case_052 |-> 45, case_053 |-> 29,
     case_054 |-> 43, case_057 |-> 30, case_059 |-> 15, case_070 |-> 21, case_073 |-> 7,
     case_081 |-> 26, case_083 |-> 39, case_087 |-> 23, case_089 |-> 4, case_091 |-> 19,
     case_092 |-> 24, case_096 |-> 47, case_098 |-> 2, case_120 |-> 5, case_134 |-> 8,
     case_135 |-> 33, case_144 |-> 9, case_168 |-> 11, case_191 |-> 52, case_201 |-> 6,
     case_214 |-> 3, dataset |-> 44, unknown |-> 40]

stable_seed(case_id) == SeedOf[case_id]
\* Mutant: the jitter is added in tenths of a millimetre.
pseudo_planned_implants_coarse_jitter(ground_truth, case_id) ==
    IF Len(ground_truth.items) = 0 THEN ListOf(<<>>)
    ELSE LET seed == stable_seed(case_id)
             jitter == 10 * (seed % 8)
             sign == IF seed % 2 = 1 THEN -1 ELSE 1
         IN  ListOf([i \in 1..Len(ground_truth.items) |->
                        LET implant == ground_truth.items[i]
                        IN  PointOf(<<float_add(coordinate(implant, "x"), 20 * sign + jitter)>>,
                                    <<float_add(coordinate(implant, "y"), 10 * sign)>>,
                                    <<float_add(coordinate(implant, "z"), 15 * sign)>>)])

\* runner.py:23-40, in units of 0.01 mm: jitter / 10.0 is (seed % 8) hundredths.
pseudo_planned_implants(ground_truth, case_id) ==
    IF Len(ground_truth.items) = 0 THEN ListOf(<<>>)
    ELSE LET seed == stable_seed(case_id)
             jitter == seed % 8
             sign == IF seed % 2 = 1 THEN -1 ELSE 1
         IN  ListOf([i \in 1..Len(ground_truth.items) |->
                        LET implant == ground_truth.items[i]
                        IN  PointOf(<<float_add(coordinate(implant, "x"), 20 * sign + jitter)>>,
                                    <<float_add(coordinate(implant, "y"), 10 * sign)>>,
                                    <<float_add(coordinate(implant, "z"), 15 * sign)>>)])

\* runner.py:32-37: implant.get / float() raise on an entry that is no mapping of numbers.
planner_raises(ground_truth) == Len(ground_truth.items) > 0 /\ ~ground_truth.numeric

\* dataset_loader.py:17-29
load_ground_truth(dir) == IF dir.gt_file = "list" THEN dir.gt ELSE ListOf(<<>>)

\* dataset_loader.py:22: json.loads raises on a file that is not JSON.
load_case_raises(dir) == dir.gt_file = "broken"

\* dataset_loader.py:32-56
load_case(dir) ==
    [case_id |-> dir.name,
     cbct_dir |-> IF dir.cbct THEN "cbct" ELSE ".",
     ios_path |-> dir.ios,
     ground_truth_implants |-> load_ground_truth(dir)]

\* Path(case_data["cbct_dir"]).exists() on the unchanged dataset.
cbct_dir_exists(dir, cbct_dir) == cbct_dir = "." \/ (cbct_dir = "cbct" /\ dir.cbct)
\* Mutant: the guide does not need the intraoral scan.
run_full_pipeline_without_scan(data, dir, elapsed_ms) ==
    LET cbct_loaded == cbct_dir_exists(dir, data.cbct_dir)
        surface_generated == cbct_loaded
        ios_loaded == data.ios_path # <<>>
        registration_ok == surface_generated
        gt_implants == data.ground_truth_implants
        planned_implants == pseudo_planned_implants(gt_implants, data.case_id)
        guide_generated == registration_ok /\ Len(planned_implants.items) > 0
        rmse == compute_implant_deviation(planned_implants, gt_implants)
        canal_min_distance == 1800 + (stable_seed(data.case_id) % 7) * 200
        safety == compute_safety_margin(FloatArg(canal_min_distance))
    IN  [rmse |-> rmse,
         min_canal_distance |-> safety.min_distance,
         guide_generated |-> guide_generated,
         execution_time_ms |-> elapsed_ms]

\* runner.py:43-80.  elapsed_ms is what the two perf_counter readings give.
run_full_pipeline(data, dir, elapsed_ms) ==
    LET cbct_loaded == cbct_dir_exists(dir, data.cbct_dir)
        surface_generated == cbct_loaded
        ios_loaded == data.ios_path # <<>>
        registration_ok == surface_generated /\ ios_loaded
        gt_implants == data.ground_truth_implants
        planned_implants == pseudo_planned_implants(gt_implants, data.case_id)
        guide_generated == registration_ok /\ Len(planned_implants.items) > 0
        rmse == compute_implant_deviation(planned_implants, gt_implants)
        canal_min_distance == 1800 + (stable_seed(data.case_id) % 7) * 200
        safety == compute_safety_margin(FloatArg(canal_min_distance))
    IN  [rmse |-> rmse,
         min_canal_distance |-> safety.min_distance,
         guide_generated |-> guide_generated,
         execution_time_ms |-> elapsed_ms]
\* Mutant: the verdict does not ask for the guide.
case_passed_without_guide(m) ==
    /\ float_le(m.rmse, THRESHOLDS.max_rmse)
    /\ m.min_canal_distance >= THRESHOLDS.min_canal_distance

\* Mutant: the canal bound is exclusive.
case_passed_exclusive(m) ==
    /\ float_le(m.rmse, THRESHOLDS.max_rmse)
    /\ m.min_canal_distance > THRESHOLDS.min_canal_distance
    /\ m.guide_generated

\* runner.py:156-160
case_passed(m) ==
    /\ float_le(m.rmse, THRESHOLDS.max_rmse)
    /\ m.min_canal_distance >= THRESHOLDS.min_canal_distance
    /\ m.guide_generated

\* runner.py:161
result_row(data, m, verdict) ==
    [case_id |-> data.case_id, rmse |-> m.rmse, min_canal_distance |-> m.min_canal_distance,
     guide_generated |-> m.guide_generated, execution_time_ms |-> m.execution_time_ms,
     passed |-> verdict]

\* The set S of numbers as an increasing sequence.
RECURSIVE SortedSeq(_)
SortedSeq(S) == IF S = {} THEN <<>> ELSE <<SetMin(S)>> \o SortedSeq(S \ {SetMin(S)})
\* Mutant: the case directories are taken in descending order.
collect_case_dirs_descending(root) ==
    IF root.subdirs = {} THEN <<0>>
    ELSE LET up == SortedSeq(root.subdirs)
         IN  [i \in 1..Len(up) |-> up[Len(up) + 1 - i]]

\* runner.py:83-90, for a root that exists.
collect_case_dirs(root) == IF root.subdirs = {} THEN <<0>> ELSE SortedSeq(root.subdirs)

\* runner.py:94-101
fieldnames ==
    <<"case_id", "rmse", "min_canal_distance", "guide_generated", "execution_time_ms", "passed">>

\* A file that does not exist.
NoFile == [exists |-> FALSE, header |-> <<>>, lines |-> <<>>]

\* runner.py:93-105: the header, then per row its values in fieldnames order.
csv_text(rows) ==
    [exists |-> TRUE, header |-> fieldnames,
     lines |-> [i \in 1..Len(rows) |-> [k \in 1..Len(fieldnames) |-> rows[i][fieldnames[k]]]]]

\* runner.py:167
Count(rows, key) == Cardinality({i \in 1..Len(rows) : rows[i][key]})

\* runner.py:108-145: the pass rate in hundredths of a percent, then per row its cells.
html_text(rows) ==
    [exists |-> TRUE,
     header |-> <<IF Len(rows) = 0 THEN 0
                  ELSE (20000 * Count(rows, "passed") + Len(rows)) \div (2 * Len(rows))>>,
     lines |-> [i \in 1..Len(rows) |->
                   <<rows[i].case_id, rows[i].rmse, rows[i].min_canal_distance,
                     rows[i].guide_generated, rows[i].execution_time_ms,
                     IF rows[i].passed THEN "PASS" ELSE "FAIL">>]]

\* Mutant: only the guide success rate decides.
validation_exit_code_rate_only(rows) ==
    LET case_count == Len(rows)
        thresholds_ok ==
            /\ case_count > 0
            /\ 100 * Count(rows, "guide_generated") > THRESHOLDS.min_guide_success_rate * case_count
    IN  IF ~thresholds_ok THEN 1 ELSE 0

\* runner.py:163-166, 180-186
validation_exit_code(rows) ==
    LET case_count == Len(rows)
        \* guide_success_rate > min_guide_success_rate, both times 100 * case_count
        thresholds_ok ==
            /\ case_count > 0
            /\ 100 * Count(rows, "guide_generated") > THRESHOLDS.min_guide_success_rate * case_count
    IN  IF ~thresholds_ok THEN 1
        ELSE IF \E i \in 1..Len(rows) : ~rows[i].passed THEN 1
        ELSE 0

NoCase == [case_id |-> "", cbct_dir |-> ".", ios_path |-> <<>>, ground_truth_implants |-> ListOf(<<>>)]

NoMetrics ==
    [rmse |-> 0, min_canal_distance |-> 0, guide_generated |-> FALSE, execution_time_ms |-> 0]

\* The locals of run_validation before it is entered.
RunLocalsReset ==
    /\ case_dirs' = <<>>
    /\ rv_idx' = 0
    /\ case_data' = NoCase
    /\ metrics' = NoMetrics
    /\ passed' = FALSE
    /\ results' = <<>>

RunIdle ==
    /\ argv_validate = "absent"
    /\ dataset = [exists |-> FALSE, subdirs |-> {}]
    /\ rv_pc = "idle"
    /\ rv_run = 0
    /\ case_dirs = <<>>
    /\ rv_idx = 0
    /\ case_data = NoCase
    /\ metrics = NoMetrics
    /\ passed = FALSE
    /\ results = <<>>
    /\ csv_file = NoFile
    /\ html_file = NoFile
    /\ csv_first = NoFile
    /\ help_printed = FALSE
    /\ rv_raised = "none"
    /\ exit_code = -1

----------------------------------------------------------------------------
(* core/mesh_preprocess.py: the two diagnostics.  The mesh libraries are    *)
(* opaque; a mesh carries what each library call yields on it:             *)
(*   kind          "none" (None) | "mesh"                                  *)
(*   edges         vtkFeatureEdges on it: "raise" | "ok"                   *)
(*   boundary      number of boundary edges it has                         *)
(*   non_manifold  number of non-manifold edges it has                     *)
(*   tm_watertight what the trimesh branch of is_watertight yields:        *)
(*                 "raise" | "false" | "true"                              *)
(*   tm_intersect  what the trimesh branch of detect_self_intersections    *)
(*                 yields: "raise" | "none" | "some"                       *)

DiagMeshOf(kind, edges, boundary, non_manifold, tm_watertight, tm_intersect) ==
    [kind |-> kind, edges |-> edges, boundary |-> boundary, non_manifold |-> non_manifold,
     tm_watertight |-> tm_watertight, tm_intersect |-> tm_intersect]

DiagNone == DiagMeshOf("none", "ok", 0, 0, "false", "none")

\* What a diagnostic hands back: raised is TRUE if an exception left it.
DiagResult(value) == [pending |-> FALSE, raised |-> FALSE, value |-> value]

NoDiagResult == [pending |-> TRUE, raised |-> FALSE, value |-> FALSE]

\* mesh_preprocess.py:135-144: the trimesh branch of is_watertight.
trimesh_watertight(polydata) ==
    IF trimesh
    THEN IF polydata.tm_watertight = "raise" THEN DiagResult(FALSE)
         ELSE DiagResult(polydata.tm_watertight = "true")
    ELSE DiagResult(FALSE)

\* mesh_preprocess.py:122-152.  With boundary and non-manifold edges on and
\* manifold and feature edges off, the filter's output holds one cell per
\* boundary or non-manifold edge.
is_watertight(polydata) ==
    IF polydata.kind = "none" THEN DiagResult(FALSE)
    ELSE IF vtk /\ polydata.edges = "ok"
         THEN DiagResult(polydata.boundary + polydata.non_manifold = 0)
    ELSE trimesh_watertight(polydata)

\* mesh_preprocess.py:155-173
detect_self_intersections(polydata) ==
    IF polydata.kind = "none" THEN DiagResult(FALSE)
    ELSE IF trimesh
         THEN IF polydata.tm_intersect = "raise" THEN DiagResult(FALSE)
              ELSE DiagResult(polydata.tm_intersect = "some")
    ELSE DiagResult(FALSE)

DiagIdle ==
    /\ trimesh = FALSE
    /\ diag_mesh = DiagNone
    /\ wt_ret = NoDiagResult
    /\ si_ret = NoDiagResult

----------------------------------------------------------------------------
(* reasoning_engine.py                                                     *)

\* The facts argument: a dict with the keys bp and age present (<<v>>) or not
\* (<<>>), or a value that is no dict.
FactsOf(bp, age) == [is_dict |-> TRUE, bp |-> bp, age |-> age]

NotADict == [is_dict |-> FALSE, bp |-> <<>>, age |-> <<>>]

\* An entry of the rules argument.  A Rule's condition is lambda f: f[key] >= threshold,
\* or lambda _: True when key is "" ; is_rule = FALSE is an entry that is no Rule.
RuleOf(id, key, threshold, outcome) ==
    [is_rule |-> TRUE, id |-> id, key |-> key, threshold |-> threshold, outcome |-> outcome]

NotARule == [is_rule |-> FALSE, id |-> "", key |-> "", threshold |-> 0, outcome |-> ""]

\* rule.condition(facts) raises KeyError: the lambda subscripts a missing key.
condition_raises(rule, facts) == rule.key # "" /\ facts[rule.key] = <<>>

\* bool(rule.condition(facts)), where the condition returns
condition(rule, facts) == rule.key = "" \/ facts[rule.key][1] >= rule.threshold

\* reasoning_engine.py:52-60: TRUE iff validate_facts raises ValidationError.
validate_facts(facts, required_fields) ==
    \/ ~facts.is_dict
    \/ \E i \in 1..Len(required_fields) : facts[required_fields[i]] = <<>>

\* Mutant: duplicate rule ids are not looked for.
validate_rules_allowing_duplicates(rules) ==
    \/ Len(rules) = 0
    \/ \E i \in 1..Len(rules) : ~rules[i].is_rule

\* reasoning_engine.py:63-75: TRUE iff validate_rules raises ValidationError.
validate_rules(rules) ==
    \/ Len(rules) = 0
    \/ \E i \in 1..Len(rules) :
          \/ ~rules[i].is_rule
          \/ \E j \in 1..(i - 1) : rules[j].is_rule /\ rules[j].id = rules[i].id

\* The outcome field of an Explanation: <<outcome>>, or <<>> for None.
\* reasoning_engine.py:85-98
explain(rule, matched) ==
    [rule_id |-> rule.id, matched |-> matched,
     outcome |-> IF matched THEN <<rule.outcome>> ELSE <<>>]

\* reasoning_engine.py:48-49
EvaluationResult == [matched_outcomes |-> <<>>, explanation |-> <<>>]

EngineIdle ==
    /\ eng_pc = "idle"
    /\ eng_facts = NotADict
    /\ eng_rules = <<>>
    /\ eng_required = <<>>
    /\ eng_idx = 0
    /\ eng_evaluated = <<>>
    /\ eng_result = EvaluationResult
    /\ eng_raised = "none"
\* What the caller holds before run_full_pipeline has returned.
NoPipelineResult == [pending |-> TRUE, raised |-> FALSE, metrics |-> NoMetrics]

PipeIdle ==
    /\ pl_case = NoCase
    /\ pl_cbct = FALSE
    /\ pl_out = NoPipelineResult
    /\ pl_passed = <<>>

\* Every component outside the guide core before it is used.
RestIdle == MetricsIdle /\ RunIdle /\ DiagIdle /\ EngineIdle /\ PipeIdle

----------------------------------------------------------------------------
(* core/mesh_preprocess.py                                                 *)

\* The six stages of preprocess_for_boolean, in source order.
Stages == <<"triangulate", "clean", "fill_holes", "normals", "largest_region", "decimate">>

\* What one kernel stage can do with its input: return a mesh with points,
\* return an empty mesh, return None, or raise.
StageOutcomes == {"mesh", "empty", "none", "raise"}

\* The value a stage's filter chain returns when it does not raise.
stage_output(stage, polydata, outcome) ==
    CASE outcome = "mesh"  -> [src |-> polydata.src, ops |-> Append(polydata.ops, stage), pts |-> "some"]
      [] outcome = "empty" -> [src |-> polydata.src, ops |-> Append(polydata.ops, stage), pts |-> "empty"]
      [] OTHER             -> None

\* Mutant: the except branch throws the working mesh away.
run_stage_reset(stage, output, outcome) ==
    IF outcome = "raise" THEN None ELSE stage_output(stage, output, outcome)

\* One "try: output = <stage>(output) / except Exception: pass" block.
run_stage(stage, output, outcome) ==
    IF outcome = "raise" THEN output ELSE stage_output(stage, output, outcome)

\* The chain of try blocks from stage k on: one record per stage that ran.
RECURSIVE run_stages(_, _, _)
run_stages(output, outs, k) ==
    IF k > Len(Stages) THEN <<>>
    ELSE LET kept == run_stage(Stages[k], output, outs[k])
         IN  <<[stage |-> Stages[k], seen |-> output, raised |-> (outs[k] = "raise"), kept |-> kept]>>
             \o run_stages(kept, outs, k + 1)

\* The stages preprocess_for_boolean runs on polydata (none without kernel or mesh).
preprocess_trace(polydata, outs) ==
    IF IsNone(polydata) \/ ~vtk THEN <<>> ELSE run_stages(polydata, outs, 1)

preprocess_for_boolean(polydata, outs) ==
    LET t == preprocess_trace(polydata, outs)
    IN  IF t = <<>> THEN polydata ELSE t[Len(t)].kept

----------------------------------------------------------------------------
(* core/guide_generator.py                                                 *)

\* Bounds of the model.
MaxCalls == 2

MaxClock == 1

LabelPrimary == "base-minus-subtract"

LabelAlternate == "subtract-minus-base"
\* Mutant: the fallback mode is set from the start.
NewDebugParts_fallback_preset ==
    [preprocessed |-> FALSE, attempts |-> <<>>, failure_artifacts |-> {},
     fallback_mode |-> "channel_only", reason |-> ""]

\* debug_parts as built at guide_generator.py:99-104 (reason "" = key not set).
NewDebugParts ==
    [preprocessed |-> FALSE, attempts |-> <<>>, failure_artifacts |-> {},
     fallback_mode |-> "None", reason |-> ""]

NoResult == [status |-> "none", guide_polydata |-> None, debug_parts |-> NewDebugParts]

\* What vtkBooleanOperationPolyDataFilter can do on Update()/GetOutput().
AttemptOutcomes == {"mesh", "empty", "none", "raise"}

\* boolean_filter.GetOutput() for operands a, b when nothing raised.
boolean_output(a, b, outcome) ==
    CASE outcome = "mesh"  -> [src |-> "difference", ops |-> <<a.src, b.src>>, pts |-> "some"]
      [] outcome = "empty" -> [src |-> "difference", ops |-> <<a.src, b.src>>, pts |-> "empty"]
      [] OTHER             -> None

\* _attempt_boolean_difference raises iff the kernel is there and raises.
attempt_raises(outcome) == vtk /\ outcome = "raise"

\* The value _attempt_boolean_difference returns when it does not raise.
attempt_boolean_difference(a, b, outcome) ==
    IF ~vtk THEN None
    ELSE LET output == boolean_output(a, b, outcome)
         IN  IF is_non_empty_polydata(output) THEN output ELSE None

\* Stage outcomes robust_boolean_difference is driven with (a sample of the
\* 4^6 vectors that SpecPre covers in full).
AllStages(o) == [k \in 1..Len(Stages) |-> o]

PreprocessScenarios ==
    { AllStages("mesh"),
      [AllStages("mesh") EXCEPT ![3] = "raise", ![6] = "empty"],
      [AllStages("mesh") EXCEPT ![5] = "none", ![6] = "raise"] }

\* vtk's SetInputData rejects an object that is no vtk data object with a
\* TypeError, so every kernel call on a placeholder raises.
kernel_outcomes(polydata, outcomes) ==
    IF polydata.pts = "noattr" THEN {"raise"} ELSE outcomes

\* Stage-outcome vectors the kernel can produce on polydata.
scenarios_for(polydata) ==
    IF polydata.pts = "noattr" THEN {AllStages("raise")} ELSE PreprocessScenarios

GuideInputs(name) == {None, Placeholder(name), RawMesh(name)}

\* What vtkXMLPolyDataWriter can do: write the file, raise, or fail inside
\* Write() (which reports failure by its return value, not by an exception).
WriterOutcomes == {"written", "raise", "write_returns_0"}

\* _serialize_polydata returns a path (TRUE) or None (FALSE).
serialize_returns_path(polydata, outcome) ==
    /\ vtk
    /\ ~IsNone(polydata)
    /\ outcome # "raise"

\* _serialize_polydata leaves the file on disk.
serialize_writes_file(polydata, outcome) ==
    /\ vtk
    /\ ~IsNone(polydata)
    /\ outcome = "written"

\* The disk after the running call has written `name` into bundle directory d.
files_after_write(d, name) ==
    {f \in fs_files : ~(f.dir = d /\ f.name = name)}
        \cup {[dir |-> d, name |-> name, by |-> call]}

\* Files of other calls that such a write replaces.
lost_by_write(d, name) ==
    {f \in fs_files : f.dir = d /\ f.name = name /\ f.by # call}

GuideIdle ==
    /\ pc = "idle"
    /\ call = 0
    /\ base = None
    /\ subtract = None
    /\ base_pp = None
    /\ subtract_pp = None
    /\ debug_parts = NewDebugParts
    /\ result = NoResult
    /\ bundle_dir = -1
    /\ artifacts = {}
    /\ clock = 0
    /\ fs_root = FALSE
    /\ fs_dirs = {}
    /\ fs_files = {}
    /\ fs_lost = {}
    /\ fallbacks = <<>>
    /\ tried = <<>>

PreIdle ==
    /\ pp_pc = "idle"
    /\ pp_in = None
    /\ pp_out = None
    /\ pp_trace = <<>>

fs_vars == <<fs_root, fs_dirs, fs_files, fs_lost>>

\* Between two calls a second boundary may pass.
Tick ==
    /\ pc \in {"idle", "returned", "raised"}
    /\ clock < MaxClock
    /\ clock' = clock + 1
    /\ UNCHANGED <<vtk, pre_vars, qc_vars, rest_vars, pc, call, base, subtract, base_pp, subtract_pp,
                   debug_parts, result, bundle_dir, artifacts, fs_vars, fallbacks, tried>>

\* Mutant: only the first operand is tested for None.
input_missing_base_only(b, s) == IsNone(b)

\* guide_generator.py:106: "base is None or subtract is None".
input_missing(b, s) == IsNone(b) \/ IsNone(s)

\* guide_generator.py:96-113: entry, and the early return on a missing operand.
Enter(b, s) ==
    /\ pc \in {"idle", "returned", "raised"}
    /\ call < MaxCalls
    /\ call' = call + 1
    /\ base' = b
    /\ subtract' = s
    /\ base_pp' = None
    /\ subtract_pp' = None
    /\ bundle_dir' = -1
    /\ artifacts' = {}
    /\ tried' = <<>>
    /\ IF input_missing(b, s)
       THEN /\ debug_parts' = [NewDebugParts EXCEPT !.reason = "Input mesh missing for boolean difference."]
            /\ result' = [status |-> "failed", guide_polydata |-> None, debug_parts |-> debug_parts']
            /\ pc' = "returned"
       ELSE /\ debug_parts' = NewDebugParts
            /\ result' = NoResult
            /\ pc' = "preprocess"
    /\ UNCHANGED <<vtk, pre_vars, qc_vars, rest_vars, clock, fs_vars, fallbacks>>

Call == \E b \in GuideInputs("base"), s \in GuideInputs("subtract") : Enter(b, s)

\* guide_generator.py:115-122.  preprocess_for_boolean catches everything its
\* stages raise, so the try block always completes.
PreprocessBoth ==
    /\ pc = "preprocess"
    /\ \E ob \in scenarios_for(base), os \in scenarios_for(subtract) :
          /\ base_pp' = preprocess_for_boolean(base, ob)
          /\ subtract_pp' = preprocess_for_boolean(subtract, os)
    /\ debug_parts' = [debug_parts EXCEPT !.preprocessed = TRUE]
    /\ pc' = "attempt1"
    /\ UNCHANGED <<vtk, pre_vars, qc_vars, rest_vars, call, base, subtract, result, bundle_dir, artifacts,
                   clock, fs_vars, fallbacks, tried>>

\* One "try: result = _attempt...(a, b); attempts.append(label); if usable: return"
\* block; an exception skips the append.
Attempt(here, a, b, label, next) ==
    /\ pc = here
    /\ \E o \in kernel_outcomes(a, kernel_outcomes(b, AttemptOutcomes)) :
          IF attempt_raises(o)
          THEN /\ tried' = Append(tried, [label |-> label, raised |-> TRUE, output |-> None])
               /\ pc' = next
               /\ UNCHANGED <<debug_parts, result>>
          ELSE LET r == attempt_boolean_difference(a, b, o)
               IN  /\ tried' = Append(tried, [label |-> label, raised |-> FALSE, output |-> r])
                   /\ debug_parts' = [debug_parts EXCEPT !.attempts = Append(@, label)]
                   /\ IF is_non_empty_polydata(r)
                      THEN /\ result' = [status |-> "success", guide_polydata |-> r,
                                         debug_parts |-> debug_parts']
                           /\ pc' = "returned"
                      ELSE /\ pc' = next
                           /\ UNCHANGED result
    /\ UNCHANGED <<vtk, pre_vars, qc_vars, rest_vars, call, base, subtract, base_pp, subtract_pp, bundle_dir,
                   artifacts, clock, fs_vars, fallbacks>>

\* guide_generator.py:124-130
AttemptPrimary == Attempt("attempt1", base_pp, subtract_pp, LabelPrimary, "attempt2")

\* guide_generator.py:132-138
AttemptAlternate == Attempt("attempt2", subtract_pp, base_pp, LabelAlternate, "mkdir_root")

\* guide_generator.py:140-141 and 57: fallback_mode is set, then
\* FAILURE_LOG_DIR.mkdir(parents=True, exist_ok=True), which may raise OSError.
MkdirRoot ==
    /\ pc = "mkdir_root"
    /\ debug_parts' = [debug_parts EXCEPT !.fallback_mode = "channel_only"]
    /\ \/ /\ fs_root' = TRUE
          /\ pc' = "mkdir_bundle"
       \/ /\ ~fs_root
          /\ fs_root' = fs_root
          /\ pc' = "raised"
    /\ UNCHANGED <<vtk, pre_vars, qc_vars, rest_vars, call, base, subtract, base_pp, subtract_pp, result,
                   bundle_dir, artifacts, clock, fs_dirs, fs_files, fs_lost, fallbacks, tried>>

\* guide_generator.py:58-62: the stamp has one-second resolution; exist_ok=True
\* accepts a directory that is already there.
MkdirBundle ==
    /\ pc = "mkdir_bundle"
    /\ bundle_dir' = clock
    /\ artifacts' = {}
    /\ \/ /\ fs_dirs' = fs_dirs \cup {clock}
          /\ pc' = "serialize_base"
       \/ /\ clock \notin fs_dirs
          /\ fs_dirs' = fs_dirs
          /\ pc' = "raised"
    /\ UNCHANGED <<vtk, pre_vars, qc_vars, rest_vars, call, base, subtract, base_pp, subtract_pp, debug_parts,
                   result, clock, fs_root, fs_files, fs_lost, fallbacks, tried>>

\* guide_generator.py:64-69 with _serialize_polydata (43-53) for one mesh.
Serialize(here, polydata, name, key, next) ==
    /\ pc = here
    /\ \E o \in kernel_outcomes(polydata, WriterOutcomes) :
          /\ IF serialize_writes_file(polydata, o)
             THEN /\ fs_files' = files_after_write(bundle_dir, name)
                  /\ fs_lost' = fs_lost \cup lost_by_write(bundle_dir, name)
             ELSE UNCHANGED <<fs_files, fs_lost>>
          /\ IF serialize_returns_path(polydata, o)
             THEN artifacts' = artifacts \cup {[key |-> key, dir |-> bundle_dir, name |-> name]}
             ELSE UNCHANGED artifacts
    /\ pc' = next
    /\ UNCHANGED <<vtk, pre_vars, qc_vars, rest_vars, call, base, subtract, base_pp, subtract_pp, debug_parts,
                   result, bundle_dir, clock, fs_root, fs_dirs, fallbacks, tried>>

SerializeBase == Serialize("serialize_base", base_pp, "base.vtp", "base_mesh", "serialize_subtract")

SerializeSubtract == Serialize("serialize_subtract", subtract_pp, "subtract.vtp", "subtract_mesh", "write_params")

\* Path.write_text of one bundle file; it may raise OSError.
WriteText(here, name, key, next) ==
    /\ pc = here
    /\ \/ /\ fs_files' = files_after_write(bundle_dir, name)
          /\ fs_lost' = fs_lost \cup lost_by_write(bundle_dir, name)
          /\ artifacts' = artifacts \cup {[key |-> key, dir |-> bundle_dir, name |-> name]}
          /\ pc' = next
       \/ /\ pc' = "raised"
          /\ UNCHANGED <<fs_files, fs_lost, artifacts>>
    /\ UNCHANGED <<vtk, pre_vars, qc_vars, rest_vars, call, base, subtract, base_pp, subtract_pp, debug_parts,
                   result, bundle_dir, clock, fs_root, fs_dirs, fallbacks, tried>>

\* guide_generator.py:71-73; params = {"strategy": "channel-only", "attempts":
\* debug_parts["attempts"]} holds strings only, so json.dumps cannot fail.
WriteParams == WriteText("write_params", "params.json", "params", "write_snapshot")

\* guide_generator.py:75-77
WriteSnapshot == WriteText("write_snapshot", "snapshot.log", "snapshot", "return_fallback")

\* guide_generator.py:79 and 142-154
ReturnFallback ==
    /\ pc = "return_fallback"
    /\ debug_parts' = [debug_parts EXCEPT !.failure_artifacts = artifacts]
    /\ result' = [status |-> "fallback", guide_polydata |-> base_pp, debug_parts |-> debug_parts']
    /\ fallbacks' = Append(fallbacks, [call |-> call, dir |-> bundle_dir])
    /\ pc' = "returned"
    /\ UNCHANGED <<vtk, pre_vars, qc_vars, rest_vars, call, base, subtract, base_pp, subtract_pp, bundle_dir,
                   artifacts, clock, fs_vars, tried>>

InitGuide ==
    /\ vtk \in BOOLEAN
    /\ PreIdle
    /\ GuideIdle
    /\ QcIdle
    /\ RestIdle

NextGuide ==
    \/ Tick
    \/ Call
    \/ PreprocessBoth
    \/ AttemptPrimary
    \/ AttemptAlternate
    \/ MkdirRoot
    \/ MkdirBundle
    \/ SerializeBase
    \/ SerializeSubtract
    \/ WriteParams
    \/ WriteSnapshot
    \/ ReturnFallback

SpecGuide == InitGuide /\ [][NextGuide]_vars

----------------------------------------------------------------------------
(* preprocess_for_boolean on its own, over every vector of stage outcomes. *)

PreInputs == {None, Placeholder("base"), RawMesh("base")}

InitPre ==
    /\ vtk \in BOOLEAN
    /\ pp_pc = "start"
    /\ pp_in \in PreInputs
    /\ pp_out = None
    /\ pp_trace = <<>>
    /\ GuideIdle
    /\ QcIdle
    /\ RestIdle

Preprocess ==
    /\ pp_pc = "start"
    /\ \E outs \in [1..Len(Stages) -> kernel_outcomes(pp_in, StageOutcomes)] :
          /\ pp_trace' = preprocess_trace(pp_in, outs)
          /\ pp_out' = preprocess_for_boolean(pp_in, outs)
    /\ pp_pc' = "done"
    /\ UNCHANGED <<vtk, pp_in, guide_vars, qc_vars, rest_vars>>

NextPre == Preprocess

SpecPre == InitPre /\ [][NextPre]_vars

----------------------------------------------------------------------------
(* The QC battery driven by a caller that holds one mesh and one implant   *)
(* list and calls qc_summary and the single checks in any order.           *)

\* Bounds of the model.
MaxImplants == 2

MaxQcCalls == 2

QcImplantPool ==
    { ImplantOf(<<>>, <<>>),                    \* no position, no radius: origin, 2.5 mm
      ImplantOf(<< <<30, 0, 0>> >>, <<25>>),    \* (3, 0, 0), radius 2.5
      ImplantOf(<< <<50, 0, 0>> >>, <<>>),      \* (5, 0, 0): exactly 5.0 from the origin
      ImplantOf(<< <<30, 40, 0>> >>, <<10>>),   \* (3, 4, 0), radius 1.0
      ImplantOf(<< <<10, 20, 20>> >>, <<10>>) } \* (1, 2, 2), radius 1.0

SeqsUpTo(S, n) == UNION {[1..k -> S] : k \in 0..n}

\* The implants argument: None, or a list of at most MaxImplants implants.
QcImplantLists ==
    {[absent |-> TRUE, items |-> <<>>]}
        \cup {[absent |-> FALSE, items |-> l] : l \in SeqsUpTo(QcImplantPool, MaxImplants)}

InitQC ==
    /\ vtk \in BOOLEAN
    /\ PreIdle
    /\ GuideIdle
    /\ RestIdle
    /\ qc_mesh \in QcMeshes
    /\ qc_implants \in QcImplantLists
    /\ qc_args = <<qc_mesh, qc_implants>>
    /\ qc_calls = 0
    /\ qc_first = NoQcOutput
    /\ qc_out = NoQcOutput
    /\ qc_ret = NoQcOutput

\* qc_summary(qc_mesh, qc_implants)
QcSummaryCall ==
    /\ qc_calls < MaxQcCalls
    /\ qc_out' = qc_summary(qc_mesh, qc_implants)
    /\ qc_first' = IF qc_calls = 0 THEN qc_out' ELSE qc_first
    /\ qc_calls' = qc_calls + 1
    /\ UNCHANGED <<vtk, pre_vars, guide_vars, rest_vars, qc_mesh, qc_implants, qc_args, qc_ret>>

\* A single check called on its own on the caller's mesh or implant list.
SingleCheck(ret) ==
    /\ qc_ret' = ret
    /\ UNCHANGED <<vtk, pre_vars, guide_vars, rest_vars, qc_mesh, qc_implants, qc_args, qc_calls,
                   qc_first, qc_out>>

MinimumThicknessCall == SingleCheck(minimum_thickness(qc_mesh))

SleeveCollisionCall == SingleCheck(sleeve_collision_check(qc_implants))

UndercutCall == SingleCheck(undercut_detection(qc_mesh))

OrientationCall == SingleCheck(printable_orientation_score(qc_mesh))

NextQC ==
    \/ QcSummaryCall
    \/ MinimumThicknessCall
    \/ SleeveCollisionCall
    \/ UndercutCall
    \/ OrientationCall

SpecQC == InitQC /\ [][NextQC]_vars

----------------------------------------------------------------------------
(* Claims about robust_boolean_difference (SpecGuide)                      *)

Statuses == {"success", "fallback", "failed"}

CallOver == pc \in {"returned", "raised"}

BothPresent == ~IsNone(base) /\ ~IsNone(subtract)

\* A file `name` is on disk in bundle directory d.
OnDisk(d, name) == \E f \in fs_files : f.dir = d /\ f.name = name

\* C1: every call of robust_boolean_difference ends by returning a result whose
\* status is success, fallback or failed; no exception reaches the caller.
C1_NeverRaises ==
    /\ pc # "raised"
    /\ pc = "returned" => result.status \in Statuses

\* C2: with both operands present and both attempts having returned nothing
\* usable (both labels recorded, no success), the call returns fallback with the
\* preprocessed base as guide, and the bundle directory holds params.json and
\* snapshot.log.
C2_FallbackCorrect ==
    (/\ CallOver
     /\ BothPresent
     /\ debug_parts.attempts = <<LabelPrimary, LabelAlternate>>
     /\ result.status # "success")
    => /\ pc = "returned"
       /\ result.status = "fallback"
       /\ result.guide_polydata = base_pp
       /\ bundle_dir \in fs_dirs
       /\ OnDisk(bundle_dir, "params.json")
       /\ OnDisk(bundle_dir, "snapshot.log")

\* C3: a call with base or subtract absent returns failed at once, with no guide
\* and a reason; nothing is preprocessed, no attempt is made, nothing is written.
C3_MissingInputFailsFast ==
    (call > 0 /\ (IsNone(base) \/ IsNone(subtract)))
    => /\ pc = "returned"
       /\ result.status = "failed"
       /\ IsNone(result.guide_polydata)
       /\ result.debug_parts.reason # ""
       /\ result.debug_parts.attempts = <<>>
       /\ result.debug_parts.failure_artifacts = {}
       /\ result.debug_parts.preprocessed = FALSE
       /\ base_pp = None /\ subtract_pp = None
       /\ bundle_dir = -1
       /\ \A f \in fs_files : f.by # call

\* Witness of C3: the second call has a mesh as base and no subtract, and
\* returned failed while the first call's bundle is on disk.
C3_Witness ==
    /\ call = 2
    /\ pc = "returned"
    /\ ~IsNone(base) /\ IsNone(subtract)
    /\ result.status = "failed"
    /\ fs_files # {}

\* C4: once the fallback branch is entered (fallback_mode set), writing the
\* bundle never raises: the call does not end in an exception.
C4_BundleWriteNeverRaises ==
    debug_parts.fallback_mode = "channel_only" => pc # "raised"

\* C5: any two calls that returned fallback wrote their bundles into distinct
\* directories, and no file of a returned fallback's bundle has been overwritten
\* by another call.
C5_OwnDirectoryPerFallback ==
    /\ \A i, j \in DOMAIN fallbacks : i # j => fallbacks[i].dir # fallbacks[j].dir
    /\ \A i \in DOMAIN fallbacks :
          ~(\E f \in fs_lost : f.by = fallbacks[i].call /\ f.dir = fallbacks[i].dir)

----------------------------------------------------------------------------
(* Claims about preprocess_for_boolean (SpecPre)                           *)

StageIndex == 1..Len(Stages)

\* Stages before k that did not raise.
GoodBefore(k) == {j \in 1..(k - 1) : ~pp_trace[j].raised}

\* What stage k must be given: the output of the last stage before it that
\* did not raise, the input mesh if there is none.
LastGoodBefore(k) ==
    IF GoodBefore(k) = {} THEN pp_in
    ELSE pp_trace[CHOOSE j \in GoodBefore(k) : \A i \in GoodBefore(k) : i <= j].kept

\* C6: with the kernel available and a mesh given, preprocess_for_boolean runs
\* each of the six stages exactly once in the fixed order, gives every stage the
\* output of the last non-raising stage before it (the input if none), and
\* returns the output of the last non-raising stage; with no stage returning
\* None, the filters applied to the result are exactly the non-raising stages.
C6_StageIsolation ==
    (pp_pc = "done" /\ vtk /\ ~IsNone(pp_in))
    => /\ Len(pp_trace) = Len(Stages)
       /\ \A k \in StageIndex : pp_trace[k].stage = Stages[k]
       /\ \A k \in StageIndex : pp_trace[k].seen = LastGoodBefore(k)
       /\ pp_out = LastGoodBefore(Len(Stages) + 1)
       /\ (\A k \in StageIndex : ~IsNone(pp_trace[k].kept))
            => pp_out.ops = SelectSeq(Stages, LAMBDA st :
                    \E k \in StageIndex : Stages[k] = st /\ ~pp_trace[k].raised)

\* Witness of C6: fill_holes and decimate raised, the other stages did not, and
\* the result carries exactly the four filters that ran.
C6_Witness ==
    /\ pp_pc = "done" /\ vtk /\ pp_in = RawMesh("base")
    /\ pp_trace[3].raised /\ pp_trace[6].raised
    /\ pp_out.ops = <<"triangulate", "clean", "normals", "largest_region">>

----------------------------------------------------------------------------
(* Claims about the QC battery (SpecQC)                                    *)

QcItems == IF qc_implants.absent THEN <<>> ELSE qc_implants.items

\* C7: the summary holds the four sub-results of its mesh and implant list and
\* an overall flag that is true iff all four sub-results pass.
C7_SummaryIsConjunction ==
    qc_calls > 0
    => /\ DOMAIN qc_out = {"minimum_thickness", "sleeve_collision", "undercut",
                           "printable_orientation", "passes"}
       /\ qc_out.minimum_thickness = minimum_thickness(qc_mesh)
       /\ qc_out.sleeve_collision = sleeve_collision_check(qc_implants)
       /\ qc_out.undercut = undercut_detection(qc_mesh)
       /\ qc_out.printable_orientation = printable_orientation_score(qc_mesh)
       /\ qc_out.passes <=> (/\ qc_out.minimum_thickness.passes
                             /\ qc_out.sleeve_collision.passes
                             /\ qc_out.undercut.passes
                             /\ qc_out.printable_orientation.passes)

\* Witness of C7: thickness, sleeves and undercut pass, the orientation score
\* does not, and the summary fails.
C7_Witness ==
    /\ qc_calls > 0
    /\ qc_out.minimum_thickness.passes
    /\ qc_out.sleeve_collision.passes
    /\ qc_out.undercut.passes
    /\ ~qc_out.printable_orientation.passes
    /\ ~qc_out.passes

Collide(i, j) ==
    LET a == QcItems[i]
        b == QcItems[j]
        pa == IF a.position = <<>> THEN <<0, 0, 0>> ELSE a.position[1]
        pb == IF b.position = <<>> THEN <<0, 0, 0>> ELSE b.position[1]
        ra == IF a.sleeve_radius_mm = <<>> THEN 25 ELSE a.sleeve_radius_mm[1]
        rb == IF b.sleeve_radius_mm = <<>> THEN 25 ELSE b.sleeve_radius_mm[1]
        sq(x) == x * x
    IN  /\ ra + rb > 0
        /\ sq(pa[1] - pb[1]) + sq(pa[2] - pb[2]) + sq(pa[3] - pb[3]) < sq(ra + rb)

Pairs == {<<i, j>> \in (1..Len(QcItems)) \X (1..Len(QcItems)) : i < j}

\* C9: sleeve_collision_check passes iff no pair of implants collides; the
\* collisions list has exactly one entry per colliding pair (implant_a <
\* implant_b) and none for any other pair; a list of fewer than two implants
\* (or an absent list) passes.
C9_CollisionsExact ==
    qc_calls > 0
    => LET r == qc_out.sleeve_collision
           Entries(i, j) == {k \in DOMAIN r.collisions :
                                /\ r.collisions[k].implant_a = i - 1
                                /\ r.collisions[k].implant_b = j - 1}
       IN  /\ r.passes <=> ~(\E pr \in Pairs : Collide(pr[1], pr[2]))
           /\ \A pr \in Pairs :
                 Cardinality(Entries(pr[1], pr[2])) = IF Collide(pr[1], pr[2]) THEN 1 ELSE 0
           /\ \A k \in DOMAIN r.collisions :
                 /\ 0 <= r.collisions[k].implant_a
                 /\ r.collisions[k].implant_a < r.collisions[k].implant_b
                 /\ r.collisions[k].implant_b < Len(QcItems)
           /\ Len(QcItems) < 2 => r.passes

\* Witness of C9: implants at (0,0,0) and (3,0,0), both radius 2.5, are reported
\* as one collision at distance 3.0 and the check fails.
C9_Witness ==
    /\ qc_calls > 0
    /\ QcItems = <<ImplantOf(<<>>, <<>>), ImplantOf(<< <<30, 0, 0>> >>, <<25>>)>>
    /\ ~qc_out.sleeve_collision.passes
    /\ qc_out.sleeve_collision.collisions =
           <<[implant_a |-> 0, implant_b |-> 1, distance |-> 3000]>>

IndexPermutations(n) == {p \in [1..n -> 1..n] : \A i, j \in 1..n : p[i] = p[j] => i = j}

Permuted(items, p) == [i \in 1..Len(items) |-> items[p[i]]]

\* C10: the passes flag of sleeve_collision_check is the same for every
\* permutation of the implant list, and for two implants the swapped list
\* reports a collision iff the original does, at the same distance.
C10_CollisionSymmetric ==
    qc_calls > 0
    => LET r == qc_out.sleeve_collision
       IN  /\ \A p \in IndexPermutations(Len(QcItems)) :
                 sleeve_collision_check([absent |-> FALSE, items |-> Permuted(QcItems, p)]).passes
                    = r.passes
           /\ Len(QcItems) = 2 =>
                 LET swapped == sleeve_collision_check(
                                    [absent |-> FALSE, items |-> <<QcItems[2], QcItems[1]>>])
                 IN  /\ Len(swapped.collisions) = Len(r.collisions)
                     /\ \A k \in DOMAIN r.collisions :
                           swapped.collisions[k].distance = r.collisions[k].distance

\* Witness of C10: two different implants, (0,0,0) radius 2.5 and (1,2,2)
\* radius 1.0, collide at distance 3.0.
C10_Witness ==
    /\ qc_calls > 0
    /\ QcItems = <<ImplantOf(<<>>, <<>>), ImplantOf(<< <<10, 20, 20>> >>, <<10>>)>>
    /\ ~qc_out.sleeve_collision.passes
    /\ qc_out.sleeve_collision.collisions[1].distance = 3000

\* C17: minimum_thickness reports the smallest strictly positive extent of the
\* mesh's bounding box (upper bound minus lower bound per axis) and passes iff
\* it is at least 1.5 mm; with no positive extent, an absent mesh or a
\* placeholder it reports 0.0 and does not pass.
C17_SmallestPositiveExtent ==
    "minimum_thickness_mm" \in DOMAIN qc_ret
    => LET b == IF qc_mesh.kind = "mesh" THEN qc_mesh.bounds ELSE ZeroBounds
           positive == {e \in {b[2] - b[1], b[4] - b[3], b[6] - b[5]} : e > 0}
       IN  IF positive = {}
           THEN qc_ret = [minimum_thickness_mm |-> 0, passes |-> FALSE]
           ELSE /\ qc_ret.minimum_thickness_mm = 100 * SetMin(positive)
                /\ qc_ret.passes <=> SetMin(positive) >= 15

\* C18: undercut_detection reports the share of point normals whose build-axis
\* component is below -0.2 (to three decimals) and passes iff that share is
\* below 0.35; without a mesh, without the kernel, without normals or when the
\* normal computation raises it reports risk 0.0 and passes.
C18_UndercutFailsOpen ==
    "undercut_risk" \in DOMAIN qc_ret
    => LET nz == qc_mesh.normals.nz
           total == Len(nz)
           backward == Cardinality({i \in 1..total : 10 * nz[i] < -20})
           produced == /\ vtk
                       /\ qc_mesh.kind = "mesh"
                       /\ qc_mesh.normals.kind = "tuples"
                       /\ total > 0
       IN  IF produced
           THEN /\ 2 * Abs(1000 * backward - qc_ret.undercut_risk * total) <= total
                /\ qc_ret.passes <=> 100 * backward < 35 * total
           ELSE qc_ret = [undercut_risk |-> 0, passes |-> TRUE]

\* Witness of C18: 7 of 20 normals point backward, one more sits at -0.2: the
\* risk is exactly 0.35 and the check fails.
C18_Witness ==
    /\ "undercut_risk" \in DOMAIN qc_ret
    /\ Len(qc_mesh.normals.nz) = 20
    /\ qc_ret = [undercut_risk |-> 350, passes |-> FALSE]

----------------------------------------------------------------------------
(* The two metrics called on their own (SpecMetrics).                      *)

\* Bound of the model: the longest implant list.
MaxPoints == 2

\* (0, 0, 0); (0.3, 0.4) with no z key: 0.5 mm from the first; (1.5, 0, 0).
PointPool ==
    { PointOf(<<0>>, <<0>>, <<0>>),
      PointOf(<<30>>, <<40>>, <<>>),
      PointOf(<<150>>, <<0>>, <<0>>) }

\* None, a tuple, ... or a list of at most MaxPoints implants.
DeviationArgs == {NotAList} \cup {ListOf(l) : l \in SeqsUpTo(PointPool, MaxPoints)}

MarginArgs ==
    {FloatArg(v) : v \in {-1000, 0, 1800, 1999, 2000, 2001, 2400, 3000}}
        \cup {IntArg(v) : v \in {1, 2, 3}}

InitMetrics ==
    /\ vtk = FALSE
    /\ PreIdle
    /\ GuideIdle
    /\ QcIdle
    /\ RunIdle
    /\ DiagIdle
    /\ EngineIdle
    /\ PipeIdle
    /\ dev_plan \in DeviationArgs
    /\ dev_truth \in DeviationArgs
    /\ dev_out = NoDeviation
    /\ margin_in \in MarginArgs
    /\ margin_out = NoMargin

\* compute_implant_deviation(dev_plan, dev_truth)
DeviationCall ==
    /\ dev_out.pending
    /\ dev_out' = [pending |-> FALSE, value |-> compute_implant_deviation(dev_plan, dev_truth)]
    /\ UNCHANGED <<vtk, pre_vars, guide_vars, qc_vars, run_vars, diag_vars, engine_vars, pipe_vars,
                   dev_plan, dev_truth, margin_in, margin_out>>

\* compute_safety_margin(margin_in)
MarginCall ==
    /\ margin_out.pending
    /\ margin_out' = [pending |-> FALSE, value |-> compute_safety_margin(margin_in)]
    /\ UNCHANGED <<vtk, pre_vars, guide_vars, qc_vars, run_vars, diag_vars, engine_vars, pipe_vars,
                   dev_plan, dev_truth, dev_out, margin_in>>

NextMetrics ==
    \/ DeviationCall
    \/ MarginCall

SpecMetrics == InitMetrics /\ [][NextMetrics]_vars

----------------------------------------------------------------------------
(* Claims about the metrics (SpecMetrics)                                  *)

\* The number of pairs compute_implant_deviation is said to look at.
PairCount == Min2(Len(dev_plan.items), Len(dev_truth.items))

\* Squared distance, in (0.01 mm)^2, between entry i of the plan and entry i of
\* the ground truth, a missing key counting as 0.
PairSquared(i) ==
    LET at(p, k) == IF p[k] = <<>> THEN 0 ELSE p[k][1]
        sq(v) == v * v
        p == dev_plan.items[i]
        g == dev_truth.items[i]
    IN  sq(at(p, "x") - at(g, "x")) + sq(at(p, "y") - at(g, "y")) + sq(at(p, "z") - at(g, "z"))

RECURSIVE PairSquaredUpTo(_)
PairSquaredUpTo(n) == IF n = 0 THEN 0 ELSE PairSquared(n) + PairSquaredUpTo(n - 1)

\* C11: compute_implant_deviation returns 0 when an argument is not a list or is
\* an empty list; otherwise its result is the root of the mean squared distance
\* over the first min(len) pairs (to the nearest 0.001 mm), is the result for
\* the two lists cut to that length, and is 0 when all those pairs coincide.
C11_DeviationOverPairs ==
    ~dev_out.pending
    => LET r == dev_out.value
           n == PairCount
           total == PairSquaredUpTo(n)
       IN  IF ~dev_plan.is_list \/ ~dev_truth.is_list \/ n = 0 THEN r = 0
           ELSE /\ n * (2 * r + 1) * (2 * r + 1) > 400 * total
                /\ r = 0 \/ n * (2 * r - 1) * (2 * r - 1) <= 400 * total
                /\ r = compute_implant_deviation(ListOf(SubSeq(dev_plan.items, 1, n)),
                                                 ListOf(SubSeq(dev_truth.items, 1, n)))
                /\ (\A i \in 1..n : dev_plan.items[i] = dev_truth.items[i]) => r = 0

\* Witness of C11: a plan of two implants against one ground-truth implant
\* 0.5 mm from the first; the second planned implant does not count.
C11_Witness ==
    /\ ~dev_out.pending
    /\ dev_plan = ListOf(<<PointOf(<<30>>, <<40>>, <<>>), PointOf(<<150>>, <<0>>, <<0>>)>>)
    /\ dev_truth = ListOf(<<PointOf(<<0>>, <<0>>, <<0>>)>>)
    /\ dev_out.value = 500

\* C16: compute_safety_margin(d) returns min_distance = d, is_safe = (d >= 2.0)
\* and safety_margin = max(d - 2.0, 0); so the margin is never negative, is 0
\* when is_safe is false, and is_safe is true when the margin is positive.
C16_SafetyMargin ==
    ~margin_out.pending
    => LET d == IF margin_in.kind = "int" THEN 1000 * margin_in.value ELSE margin_in.value
           out == margin_out.value
       IN  /\ out.min_distance = d
           /\ out.is_safe <=> d >= 2000
           /\ out.safety_margin = IF d > 2000 THEN d - 2000 ELSE 0
           /\ out.safety_margin >= 0
           /\ ~out.is_safe => out.safety_margin = 0
           /\ out.safety_margin > 0 => out.is_safe

\* Witness of C16: a distance of exactly 2.0 mm is safe with margin 0.
C16_Witness ==
    /\ ~margin_out.pending
    /\ margin_in = FloatArg(2000)
    /\ margin_out.value = [min_distance |-> 2000, safety_margin |-> 0, is_safe |-> TRUE]

----------------------------------------------------------------------------
(* The validation runner: the command line is run MaxRuns times on one     *)
(* unchanged dataset (SpecRun).                                            *)

\* Bounds of the model.
MaxCases == 2

MaxElapsed == 1

MaxRuns == 2

\* The dataset directory: missing, or holding at most MaxCases case directories.
Datasets ==
    {[exists |-> FALSE, subdirs |-> {}]}
        \cup {[exists |-> TRUE, subdirs |-> S] :
                 S \in {T \in SUBSET (1..Len(CasePool)) : Cardinality(T) <= MaxCases}}

InitRun ==
    /\ vtk = FALSE
    /\ PreIdle
    /\ GuideIdle
    /\ QcIdle
    /\ MetricsIdle
    /\ DiagIdle
    /\ EngineIdle
    /\ PipeIdle
    /\ argv_validate \in {"absent", "empty", "path"}
    /\ dataset \in Datasets
    /\ rv_pc = "start"
    /\ rv_run = 1
    /\ case_dirs = <<>>
    /\ rv_idx = 0
    /\ case_data = NoCase
    /\ metrics = NoMetrics
    /\ passed = FALSE
    /\ results = <<>>
    /\ csv_file = NoFile
    /\ html_file = NoFile
    /\ csv_first = NoFile
    /\ help_printed = FALSE
    /\ rv_raised = "none"
    /\ exit_code = -1

not_run_vars == <<vtk, pre_vars, guide_vars, qc_vars, metric_vars, diag_vars, engine_vars,
                  pipe_vars>>

\* runner.py:195-203: args.validate is None without the option and "" for an
\* empty value; both are falsy.
Main ==
    /\ rv_pc = "start"
    /\ IF argv_validate = "path"
       THEN /\ rv_pc' = "collect"
            /\ UNCHANGED <<help_printed, exit_code>>
       ELSE /\ help_printed' = TRUE
            /\ exit_code' = 0
            /\ rv_pc' = "exited"
    /\ UNCHANGED <<not_run_vars, argv_validate, dataset, rv_run, case_dirs, rv_idx, case_data,
                   metrics, passed, results, csv_file, html_file, csv_first, rv_raised>>

\* runner.py:149-152, 83-90
CollectCaseDirs ==
    /\ rv_pc = "collect"
    /\ IF ~dataset.exists
       THEN /\ rv_raised' = "FileNotFoundError"
            /\ rv_pc' = "exited"
            /\ UNCHANGED <<case_dirs, rv_idx>>
       ELSE /\ case_dirs' = collect_case_dirs(dataset)
            /\ rv_idx' = 1
            /\ rv_pc' = "load"
            /\ UNCHANGED rv_raised
    /\ UNCHANGED <<not_run_vars, argv_validate, dataset, rv_run, case_data, metrics, passed,
                   results, csv_file, html_file, csv_first, help_printed, exit_code>>

\* runner.py:153-154
LoadCase ==
    /\ rv_pc = "load"
    /\ LET dir == DirOnDisk(case_dirs[rv_idx])
       IN  IF load_case_raises(dir)
           THEN /\ rv_raised' = "JSONDecodeError"
                /\ rv_pc' = "exited"
                /\ UNCHANGED case_data
           ELSE /\ case_data' = load_case(dir)
                /\ rv_pc' = "pipeline"
                /\ UNCHANGED rv_raised
    /\ UNCHANGED <<not_run_vars, argv_validate, dataset, rv_run, case_dirs, rv_idx, metrics,
                   passed, results, csv_file, html_file, csv_first, help_printed, exit_code>>

\* runner.py:155
RunPipeline ==
    /\ rv_pc = "pipeline"
    /\ IF planner_raises(case_data.ground_truth_implants)
       THEN /\ rv_raised' = "AttributeError"
            /\ rv_pc' = "exited"
            /\ UNCHANGED metrics
       ELSE /\ \E elapsed_ms \in 0..MaxElapsed :
                  metrics' = run_full_pipeline(case_data, DirOnDisk(case_dirs[rv_idx]), elapsed_ms)
            /\ rv_pc' = "score"
            /\ UNCHANGED rv_raised
    /\ UNCHANGED <<not_run_vars, argv_validate, dataset, rv_run, case_dirs, rv_idx, case_data,
                   passed, results, csv_file, html_file, csv_first, help_printed, exit_code>>

\* runner.py:156-160
ScoreCase ==
    /\ rv_pc = "score"
    /\ passed' = case_passed(metrics)
    /\ rv_pc' = "record"
    /\ UNCHANGED <<not_run_vars, argv_validate, dataset, rv_run, case_dirs, rv_idx, case_data,
                   metrics, results, csv_file, html_file, csv_first, help_printed, rv_raised,
                   exit_code>>

\* runner.py:161, and the loop going on to the next case directory or ending
RecordCase ==
    /\ rv_pc = "record"
    /\ results' = Append(results, result_row(case_data, metrics, passed))
    /\ rv_idx' = rv_idx + 1
    /\ rv_pc' = IF rv_idx < Len(case_dirs) THEN "load" ELSE "csv"
    /\ UNCHANGED <<not_run_vars, argv_validate, dataset, rv_run, case_dirs, case_data, metrics,
                   passed, csv_file, html_file, csv_first, help_printed, rv_raised, exit_code>>

\* runner.py:169-174
WriteCsv ==
    /\ rv_pc = "csv"
    /\ csv_file' = csv_text(results)
    /\ csv_first' = IF rv_run = 1 THEN csv_file' ELSE csv_first
    /\ rv_pc' = "html"
    /\ UNCHANGED <<not_run_vars, argv_validate, dataset, rv_run, case_dirs, rv_idx, case_data,
                   metrics, passed, results, html_file, help_printed, rv_raised, exit_code>>

\* runner.py:175-178
WriteHtml ==
    /\ rv_pc = "html"
    /\ html_file' = html_text(results)
    /\ rv_pc' = "return"
    /\ UNCHANGED <<not_run_vars, argv_validate, dataset, rv_run, case_dirs, rv_idx, case_data,
                   metrics, passed, results, csv_file, csv_first, help_printed, rv_raised,
                   exit_code>>

\* runner.py:180-186, and main returning what run_validation returned (runner.py:200)
ReturnExitCode ==
    /\ rv_pc = "return"
    /\ exit_code' = validation_exit_code(results)
    /\ rv_pc' = "exited"
    /\ UNCHANGED <<not_run_vars, argv_validate, dataset, rv_run, case_dirs, rv_idx, case_data,
                   metrics, passed, results, csv_file, html_file, csv_first, help_printed,
                   rv_raised>>

\* The same command line is run again in the same working directory.
RunAgain ==
    /\ rv_pc = "exited"
    /\ rv_run < MaxRuns
    /\ rv_run' = rv_run + 1
    /\ rv_pc' = "start"
    /\ RunLocalsReset
    /\ help_printed' = FALSE
    /\ rv_raised' = "none"
    /\ exit_code' = -1
    /\ UNCHANGED <<not_run_vars, argv_validate, dataset, csv_file, html_file, csv_first>>

NextRun ==
    \/ Main
    \/ CollectCaseDirs
    \/ LoadCase
    \/ RunPipeline
    \/ ScoreCase
    \/ RecordCase
    \/ WriteCsv
    \/ WriteHtml
    \/ ReturnExitCode
    \/ RunAgain

SpecRun == InitRun /\ [][NextRun]_vars

----------------------------------------------------------------------------
(* Claims about the validation runner (SpecRun)                            *)

\* run_validation has returned in the current run.
Returned == rv_pc = "exited" /\ argv_validate = "path" /\ rv_raised = "none"

\* The directories run_validation takes as cases: 0 is the dataset root.
CaseNumbers == IF dataset.subdirs = {} THEN {0} ELSE dataset.subdirs

\* C12: a case's passed flag is true iff rmse <= 1.5 and min_canal_distance >= 2.0
\* and guide_generated, with the thresholds 1.5, 2.0 and 0.95 of THRESHOLDS; both
\* bounds are inclusive, and rmse 0.3 with distance 2.4 and a guide passes.
C12_PassedIsConjunction ==
    LET Verdict(m) == m.rmse <= 1500 /\ m.min_canal_distance >= 2000 /\ m.guide_generated
        Sample(r, d) ==
            [rmse |-> r, min_canal_distance |-> d, guide_generated |-> TRUE,
             execution_time_ms |-> 0]
    IN  /\ THRESHOLDS =
              [max_rmse |-> 1500, min_canal_distance |-> 2000, min_guide_success_rate |-> 95]
        /\ \A i \in 1..Len(results) : results[i].passed <=> Verdict(results[i])
        /\ rv_pc = "record" => (passed <=> Verdict(metrics))
        /\ case_passed(Sample(1500, 2000))
        /\ case_passed(Sample(300, 2400))
        /\ ~case_passed(Sample(1501, 2000))
        /\ ~case_passed(Sample(1500, 1999))

\* Witness of C12: case_020 is recorded with rmse 0.300 and a canal distance of
\* exactly 2.0 and has passed, next to a case that has not.
C12_Witness ==
    /\ \E i \in 1..Len(results) :
          /\ results[i].case_id = "case_020"
          /\ results[i].rmse = 300
          /\ results[i].min_canal_distance = 2000
          /\ results[i].passed
    /\ \E i \in 1..Len(results) : ~results[i].passed

C14_DeterministicReplay ==
    (rv_run > 1 /\ rv_pc \in {"html", "return", "exited"} /\ rv_raised = "none"
        /\ argv_validate = "path")
    => csv_file = csv_first

\* C15: on a dataset in which every case loads, run_validation does not end in
\* an exception, and when it has returned its exit code both report files hold
\* exactly one row per case.
C15_ReportsBeforeExit ==
    (argv_validate = "path" /\ dataset.exists
        /\ \A i \in CaseNumbers : ~load_case_raises(DirOnDisk(i)))
    => /\ rv_raised = "none"
       /\ exit_code # -1
          => /\ csv_file = csv_text(results)
             /\ html_file = html_text(results)
             /\ Len(csv_file.lines) = Cardinality(CaseNumbers)
             /\ Len(html_file.lines) = Cardinality(CaseNumbers)

----------------------------------------------------------------------------
(* The two mesh diagnostics called on one mesh (SpecDiag).                 *)

\* Bound of the model: the most boundary (or non-manifold) edges of a mesh.
MaxEdges == 1

DiagMeshes ==
    {DiagNone}
        \cup {DiagMeshOf("mesh", e, b, n, tw, ti) :
                 e \in {"ok", "raise"}, b \in 0..MaxEdges, n \in 0..MaxEdges,
                 tw \in {"raise", "false", "true"}, ti \in {"raise", "none", "some"}}

InitDiag ==
    /\ vtk \in BOOLEAN
    /\ PreIdle
    /\ GuideIdle
    /\ QcIdle
    /\ MetricsIdle
    /\ RunIdle
    /\ EngineIdle
    /\ PipeIdle
    /\ trimesh \in BOOLEAN
    /\ diag_mesh \in DiagMeshes
    /\ wt_ret = NoDiagResult
    /\ si_ret = NoDiagResult

\* is_watertight(diag_mesh)
IsWatertightCall ==
    /\ wt_ret.pending
    /\ wt_ret' = is_watertight(diag_mesh)
    /\ UNCHANGED <<vtk, pre_vars, guide_vars, qc_vars, metric_vars, run_vars, engine_vars, pipe_vars,
                   trimesh, diag_mesh, si_ret>>

\* detect_self_intersections(diag_mesh)
DetectSelfIntersectionsCall ==
    /\ si_ret.pending
    /\ si_ret' = detect_self_intersections(diag_mesh)
    /\ UNCHANGED <<vtk, pre_vars, guide_vars, qc_vars, metric_vars, run_vars, engine_vars, pipe_vars,
                   trimesh, diag_mesh, wt_ret>>

NextDiag ==
    \/ IsWatertightCall
    \/ DetectSelfIntersectionsCall

SpecDiag == InitDiag /\ [][NextDiag]_vars

----------------------------------------------------------------------------
(* Claims about the mesh diagnostics (SpecDiag)                            *)

\* C19: is_watertight never raises, returns false when the mesh is absent or
\* its feature-edge check fails internally, and returns true only for a mesh
\* with no boundary and no non-manifold edge; detect_self_intersections never
\* raises and returns false when the mesh is absent, trimesh is unavailable or
\* its check fails internally.
C19_ConservativeDiagnostics ==
    /\ ~wt_ret.pending
       => /\ ~wt_ret.raised
          /\ (diag_mesh.kind = "none" \/ (vtk /\ diag_mesh.edges = "raise")) => ~wt_ret.value
          /\ wt_ret.value => (diag_mesh.boundary = 0 /\ diag_mesh.non_manifold = 0)
    /\ ~si_ret.pending
       => /\ ~si_ret.raised
          /\ (diag_mesh.kind = "none" \/ ~trimesh \/ diag_mesh.tm_intersect = "raise")
             => ~si_ret.value

----------------------------------------------------------------------------
(* One run_engine call, statement by statement (SpecEngine).               *)

\* Bound of the model: the longest rules argument.
MaxRules == 2

FactsPool ==
    {NotADict}
        \cup {FactsOf(b, a) : b \in {<<>>, <<120>>, <<145>>}, a \in {<<>>, <<50>>, <<70>>}}

\* The two rules of test_run_engine_matches_expected_rules, the rule of the
\* missing-fact test, a rule that reuses the id bp_high, and an entry that is
\* no Rule.
RulePool ==
    { RuleOf("bp_high", "bp", 140, "high_bp"),
      RuleOf("age_risk", "age", 65, "senior"),
      RuleOf("simple", "", 0, "ok"),
      RuleOf("bp_high", "age", 65, "senior_bp"),
      NotARule }

RuleLists == SeqsUpTo(RulePool, MaxRules)

RequiredLists == {<<>>, <<"bp">>, <<"age">>, <<"bp", "age">>}

InitEngine ==
    /\ vtk = FALSE
    /\ PreIdle
    /\ GuideIdle
    /\ QcIdle
    /\ MetricsIdle
    /\ RunIdle
    /\ DiagIdle
    /\ PipeIdle
    /\ eng_pc = "validate_facts"
    /\ eng_facts \in FactsPool
    /\ eng_rules \in RuleLists
    /\ eng_required \in RequiredLists
    /\ eng_idx = 0
    /\ eng_evaluated = <<>>
    /\ eng_result = EvaluationResult
    /\ eng_raised = "none"

not_engine_vars == <<vtk, pre_vars, guide_vars, qc_vars, metric_vars, run_vars, diag_vars,
                     pipe_vars>>

\* reasoning_engine.py:110
ValidateFacts ==
    /\ eng_pc = "validate_facts"
    /\ IF validate_facts(eng_facts, eng_required)
       THEN eng_raised' = "ValidationError" /\ eng_pc' = "raised"
       ELSE eng_pc' = "validate_rules" /\ UNCHANGED eng_raised
    /\ UNCHANGED <<not_engine_vars, eng_facts, eng_rules, eng_required, eng_idx, eng_evaluated,
                   eng_result>>

\* reasoning_engine.py:81-83
ValidateRules ==
    /\ eng_pc = "validate_rules"
    /\ IF validate_rules(eng_rules)
       THEN /\ eng_raised' = "ValidationError"
            /\ eng_pc' = "raised"
            /\ UNCHANGED <<eng_idx, eng_result>>
       ELSE /\ eng_result' = EvaluationResult
            /\ eng_idx' = 1
            /\ eng_pc' = "evaluate"
            /\ UNCHANGED eng_raised
    /\ UNCHANGED <<not_engine_vars, eng_facts, eng_rules, eng_required, eng_evaluated>>

\* reasoning_engine.py:84-98: one turn of the loop
EvaluateRule ==
    /\ eng_pc = "evaluate"
    /\ eng_idx <= Len(eng_rules)
    /\ eng_evaluated' = Append(eng_evaluated, eng_idx)
    /\ LET rule == eng_rules[eng_idx]
       IN  IF condition_raises(rule, eng_facts)
           THEN /\ eng_raised' = "KeyError"
                /\ eng_pc' = "raised"
                /\ UNCHANGED <<eng_idx, eng_result>>
           ELSE LET matched == condition(rule, eng_facts)
                IN  /\ eng_result' =
                          [matched_outcomes |->
                               IF matched THEN Append(eng_result.matched_outcomes, rule.outcome)
                               ELSE eng_result.matched_outcomes,
                           explanation |-> Append(eng_result.explanation, explain(rule, matched))]
                    /\ eng_idx' = eng_idx + 1
                    /\ UNCHANGED <<eng_pc, eng_raised>>
    /\ UNCHANGED <<not_engine_vars, eng_facts, eng_rules, eng_required>>

\* reasoning_engine.py:100, 111
ReturnResult ==
    /\ eng_pc = "evaluate"
    /\ eng_idx > Len(eng_rules)
    /\ eng_pc' = "returned"
    /\ UNCHANGED <<not_engine_vars, eng_facts, eng_rules, eng_required, eng_idx, eng_evaluated,
                   eng_result, eng_raised>>

NextEngine ==
    \/ ValidateFacts
    \/ ValidateRules
    \/ EvaluateRule
    \/ ReturnResult

SpecEngine == InitEngine /\ [][NextEngine]_vars

----------------------------------------------------------------------------
(* Claims about the reasoning engine (SpecEngine)                          *)

\* The call's input is one the engine has to reject: a required fact is missing,
\* or the rules are empty, hold an entry that is no Rule, or repeat an id.
Rejected ==
    \/ eng_facts.is_dict /\ \E i \in DOMAIN eng_required : eng_facts[eng_required[i]] = <<>>
    \/ eng_rules = <<>>
    \/ \E i \in DOMAIN eng_rules : ~eng_rules[i].is_rule
    \/ \E i, j \in DOMAIN eng_rules :
          i # j /\ eng_rules[i].is_rule /\ eng_rules[j].is_rule /\ eng_rules[i].id = eng_rules[j].id

\* Rule i's condition holds on the facts.
Holds(i) ==
    eng_rules[i].key = "" \/ eng_facts[eng_rules[i].key][1] >= eng_rules[i].threshold

\* The outcomes of the rules among the first n whose condition holds, in rule order.
RECURSIVE OutcomesUpTo(_)
OutcomesUpTo(n) ==
    IF n = 0 THEN <<>>
    ELSE OutcomesUpTo(n - 1) \o (IF Holds(n) THEN <<eng_rules[n].outcome>> ELSE <<>>)

\* C20: run_engine validates before it evaluates: on an input it has to reject
\* it raises ValidationError and no rule's condition has been called; a result
\* it returns has one explanation entry per rule, in rule order, with matched
\* equal to the rule's condition on the facts, and matched_outcomes holds the
\* outcomes of the matched rules in rule order.
C20_ValidateThenEvaluate ==
    /\ Rejected
       => /\ eng_evaluated = <<>>
          /\ eng_pc \in {"validate_facts", "validate_rules", "raised"}
          /\ eng_pc = "raised" => eng_raised = "ValidationError"
    /\ eng_raised = "ValidationError" => eng_evaluated = <<>>
    /\ eng_pc = "returned"
       => /\ eng_evaluated = [i \in 1..Len(eng_rules) |-> i]
          /\ Len(eng_result.explanation) = Len(eng_rules)
          /\ \A i \in DOMAIN eng_rules :
                /\ eng_result.explanation[i].rule_id = eng_rules[i].id
                /\ eng_result.explanation[i].matched <=> Holds(i)
                /\ eng_result.explanation[i].outcome =
                       IF Holds(i) THEN <<eng_rules[i].outcome>> ELSE <<>>
          /\ eng_result.matched_outcomes = OutcomesUpTo(Len(eng_rules))

\* Witness of C20: the call of test_run_engine_matches_expected_rules (bp 145,
\* age 50, both required) has returned: bp_high matched, age_risk did not.
C20_Witness ==
    /\ eng_pc = "returned"
    /\ eng_facts = FactsOf(<<145>>, <<50>>)
    /\ eng_required = <<"bp", "age">>
    /\ eng_rules = <<RuleOf("bp_high", "bp", 140, "high_bp"),
                     RuleOf("age_risk", "age", 65, "senior")>>
    /\ eng_result.matched_outcomes = <<"high_bp">>
    /\ eng_result.explanation[1].matched
    /\ ~eng_result.explanation[2].matched

----------------------------------------------------------------------------
(* Claims about the boolean attempts of robust_boolean_difference          *)
(* (SpecGuide)                                                             *)

\* A mesh that is there and has at least one point.
Usable(m) == m.pts = "some"

\* The attempts of the current call whose output was usable.
UsableAttempts == {i \in 1..Len(tried) : Usable(tried[i].output)}

\* The call is past the first (the second) try block.
PastPrimary == pc \notin {"idle", "preprocess", "attempt1"}

PastAlternate == PastPrimary /\ pc # "attempt2"

\* The operands of the attempt with this label, in the order they were passed.
OperandsOf(label) ==
    IF label = LabelPrimary THEN <<base_pp.src, subtract_pp.src>>
    ELSE <<subtract_pp.src, base_pp.src>>

\* C21: with both operands present the attempts are ordered and stop at the
\* first success: base-minus-subtract is attempted first; subtract-minus-base
\* is attempted iff the first attempt gave no usable mesh; status is success
\* iff an attempt made gave a usable mesh, the guide returned is the output of
\* the first such attempt, and no absent or empty mesh is returned as success.
C21_OrderedAttempts ==
    /\ ~BothPresent => tried = <<>>
    /\ Len(tried) <= 2
    /\ Len(tried) >= 1 => tried[1].label = LabelPrimary
    /\ Len(tried) = 2 => tried[2].label = LabelAlternate
    /\ (BothPresent /\ PastPrimary) => Len(tried) >= 1
    /\ (BothPresent /\ PastAlternate) => (Len(tried) = 2 <=> ~Usable(tried[1].output))
    /\ Len(tried) = 2 => ~Usable(tried[1].output)
    /\ result.status = "success" <=> UsableAttempts # {}
    /\ result.status = "success" =>
          LET first == CHOOSE i \in UsableAttempts : \A j \in UsableAttempts : i <= j
          IN  /\ pc = "returned"
              /\ first = Len(tried)
              /\ result.guide_polydata = tried[first].output
              /\ result.guide_polydata.ops = OperandsOf(tried[first].label)
              /\ Usable(result.guide_polydata)

\* Witness of C21: the first attempt returned nothing usable without raising,
\* the second was made and its mesh was returned as success.
C21_Witness ==
    /\ pc = "returned"
    /\ BothPresent
    /\ Len(tried) = 2
    /\ ~tried[1].raised /\ IsNone(tried[1].output)
    /\ result.status = "success"
    /\ result.guide_polydata = tried[2].output
    /\ result.guide_polydata.ops = <<"subtract", "base">>

\* The labels of the attempts the current call has made, in the order made.
RECURSIVE LabelsOf(_)
LabelsOf(made) ==
    IF made = <<>> THEN <<>> ELSE <<made[1].label>> \o LabelsOf(Tail(made))

\* C22: every boolean attempt that was made has its label in the attempts
\* list, in the order made, whether it returned a usable mesh, returned nothing
\* usable or raised; so every fallback result lists base-minus-subtract and
\* subtract-minus-base.
C22_LabelRecordedRegardless ==
    /\ debug_parts.attempts = LabelsOf(tried)
    /\ result.status = "fallback" =>
          result.debug_parts.attempts = <<LabelPrimary, LabelAlternate>>

\* preprocess_for_boolean wraps every kernel call of every stage in its own
\* "try / except Exception: pass" and does nothing that can raise outside of
\* them, so the handler at guide_generator.py:119-122 is never entered: once
\* both operands are present and the preprocessing step is over, preprocessed
\* is set, whatever the stages did; it is unset in every other state.
PreprocessedFlag ==
    debug_parts.preprocessed <=> (BothPresent /\ pc \notin {"idle", "preprocess"})

----------------------------------------------------------------------------
(* Claims about the failure bundle (SpecGuide)                             *)

\* The running call has left the file `name` in its bundle directory.
WrittenByCall(name) ==
    \E f \in fs_files : f.dir = bundle_dir /\ f.name = name /\ f.by = call

\* The mesh files the artifacts of the running call name.
MeshArtifacts == {a \in artifacts : a.key \in {"base_mesh", "subtract_mesh"}}

\* C24: a mesh-serialization failure does not abort the bundle write: the
\* artifact of a mesh whose file was not written is left out, the other mesh is
\* still tried, and params.json and snapshot.log are still written; the
\* artifacts name base_mesh / subtract_mesh only for files that were written.
C24_SerializationFailureOmitsArtifact ==
    /\ \A a \in MeshArtifacts : a.dir = bundle_dir /\ WrittenByCall(a.name)
    /\ (CallOver /\ bundle_dir \in fs_dirs /\ debug_parts.fallback_mode = "channel_only") =>
          /\ WrittenByCall("params.json")
          /\ WrittenByCall("snapshot.log")

\* C25: without the geometry kernel the pipeline degrades to identity instead
\* of failing: preprocess_for_boolean runs no stage and returns its input, both
\* boolean attempts give no usable result, and a call with two present operands
\* returns status fallback with the unmodified base as guide, both attempt
\* labels recorded and no mesh artifact in the bundle.
C25_NoKernelDegradesToIdentity ==
    (~vtk /\ BothPresent) =>
       /\ \A outs \in scenarios_for(base) :
             /\ preprocess_trace(base, outs) = <<>>
             /\ preprocess_for_boolean(base, outs) = base
       /\ pc \notin {"idle", "preprocess"} => (base_pp = base /\ subtract_pp = subtract)
       /\ \A i \in 1..Len(tried) : ~tried[i].raised /\ ~Usable(tried[i].output)
       /\ MeshArtifacts = {}
       /\ CallOver =>
             /\ pc = "returned"
             /\ result.status = "fallback"
             /\ result.guide_polydata = base
             /\ result.debug_parts.attempts = <<LabelPrimary, LabelAlternate>>
             /\ \A a \in result.debug_parts.failure_artifacts : a.key \in {"params", "snapshot"}

----------------------------------------------------------------------------
(* Claims about the order of the validation run (SpecRun)                  *)

\* The four stages of one case, in the order of the loop body.
CaseStages == <<"load", "pipeline", "score", "record">>

StageNumber(p) == CHOOSE k \in 1..Len(CaseStages) : CaseStages[k] = p

InCase == rv_pc \in {CaseStages[k] : k \in 1..Len(CaseStages)}

\* The name of the case directory at position i of case_dirs.
CaseName(i) == DirOnDisk(case_dirs[i]).name

\* In every state: the directories are in ascending order, and the rows
\* recorded are those of the cases before the current one, in that order.
RunInOrder ==
    /\ \A i, j \in 1..Len(case_dirs) : i < j => case_dirs[i] < case_dirs[j]
    /\ InCase => (rv_idx \in 1..Len(case_dirs) /\ Len(results) = rv_idx - 1)
    /\ \A i \in 1..Len(results) : results[i].case_id = CaseName(i)
    /\ rv_pc \in {"csv", "html", "return"} => Len(results) = Len(case_dirs)
    /\ rv_raised # "none" =>
          /\ rv_pc = "exited"
          /\ exit_code = -1
          /\ Len(results) < Len(case_dirs) \/ case_dirs = <<>>

\* In every step of one run: a case moves to its next stage or the run ends
\* with an exception; only recording a case moves on to the next one, and it
\* appends one row; rows are never changed; reports are written only after the
\* last case, and a case that fails to load ends the run with nothing written.
RunForwardOnly ==
    rv_run' = rv_run =>
       /\ (InCase /\ rv_pc # "record") =>
             /\ rv_idx' = rv_idx
             /\ results' = results
             /\ \/ rv_pc' = CaseStages[StageNumber(rv_pc) + 1] /\ rv_raised' = "none"
                \/ rv_pc' = "exited" /\ rv_raised' # "none"
       /\ rv_pc = "record" =>
             /\ rv_idx' = rv_idx + 1
             /\ Len(results') = Len(results) + 1
             /\ results'[Len(results')].case_id = CaseName(rv_idx)
             /\ rv_pc' = IF rv_idx < Len(case_dirs) THEN "load" ELSE "csv"
       /\ rv_idx' >= rv_idx
       /\ Len(results') >= Len(results)
       /\ \A i \in 1..Len(results) : results'[i] = results[i]
       /\ (csv_file' # csv_file \/ html_file' # html_file) =>
             (rv_pc \in {"csv", "html"} /\ rv_raised = "none" /\ Len(results) = Len(case_dirs))
       /\ (rv_pc = "load" /\ load_case_raises(DirOnDisk(case_dirs[rv_idx]))) =>
             /\ rv_pc' = "exited"
             /\ rv_raised' # "none"
             /\ UNCHANGED <<rv_idx, results, csv_file, html_file, exit_code>>

\* C26: the runner is a forward-only sequential state machine over cases:
\* each case is loaded, pipeline-executed, scored and recorded once and in
\* that order, in sorted directory order, the next case not being loaded
\* before the previous one is recorded; a recorded row is appended once and
\* never changed, so the result list is always a prefix of the final one; a
\* case that fails to load ends the run with that exception, no later case is
\* processed and neither the CSV nor the HTML report is written.
C26_ForwardOnlyRunner == []RunInOrder /\ [][RunForwardOnly]_vars

\* Witness of C26: the first run recorded its first case, the second case
\* failed to load, and the run ended with the exception and no report.
C26_Witness ==
    /\ rv_run = 1
    /\ rv_pc = "exited"
    /\ rv_raised = "JSONDecodeError"
    /\ Len(case_dirs) = 2 /\ rv_idx = 2
    /\ Len(results) = 1 /\ results[1].case_id = CaseName(1)
    /\ csv_file = NoFile /\ html_file = NoFile

----------------------------------------------------------------------------
(* run_full_pipeline called on one case record, followed by the verdict    *)
(* run_validation computes from what it returned.                          *)

\* The case ids: every name the seed table knows.
CaseIds == DOMAIN SeedOf

\* An implant whose x is the JSON token NaN (or Infinity).
NotFinitePoint == PointOf(<<NotFinite>>, <<100>>, <<200>>)

\* Ground-truth lists: at most MaxPoints implants, a list with a bad entry, or
\* a list with a coordinate that is no finite number.
GroundTruthLists ==
    {ListOf(l) : l \in SeqsUpTo(PointPool, MaxPoints)}
        \cup {BadEntries, ListOf(<<NotFinitePoint>>)}

\* Case records as load_case builds them; a record built by another caller
\* may name a cbct directory that is not there.
PipelineCases ==
    {[case_id |-> id, cbct_dir |-> c, ios_path |-> i, ground_truth_implants |-> gt] :
        id \in CaseIds, c \in {".", "cbct"}, i \in {<<>>, <<"ios.stl">>},
        gt \in GroundTruthLists}

InitPipeline ==
    /\ vtk = FALSE
    /\ PreIdle
    /\ GuideIdle
    /\ QcIdle
    /\ MetricsIdle
    /\ RunIdle
    /\ DiagIdle
    /\ EngineIdle
    /\ pl_case \in PipelineCases
    /\ pl_cbct \in BOOLEAN
    /\ pl_out = NoPipelineResult
    /\ pl_passed = <<>>

not_pipe_vars ==
    <<vtk, pre_vars, guide_vars, qc_vars, metric_vars, run_vars, diag_vars, engine_vars>>

\* The case directory as far as run_full_pipeline looks at the disk.
PipelineDir ==
    DirOf(pl_case.case_id, pl_cbct, pl_case.ios_path, "list", pl_case.ground_truth_implants)

\* runner.py:43-80: metrics = run_full_pipeline(case_data)
PipelineCall ==
    /\ pl_out.pending
    /\ IF planner_raises(pl_case.ground_truth_implants)
       THEN pl_out' = [pending |-> FALSE, raised |-> TRUE, metrics |-> NoMetrics]
       ELSE \E elapsed_ms \in 0..MaxElapsed :
               pl_out' = [pending |-> FALSE, raised |-> FALSE,
                          metrics |-> run_full_pipeline(pl_case, PipelineDir, elapsed_ms)]
    /\ UNCHANGED <<not_pipe_vars, pl_case, pl_cbct, pl_passed>>

\* runner.py:156-160: the verdict on the metrics returned
PipelineVerdict ==
    /\ ~pl_out.pending
    /\ ~pl_out.raised
    /\ pl_passed = <<>>
    /\ pl_passed' = <<case_passed(pl_out.metrics)>>
    /\ UNCHANGED <<not_pipe_vars, pl_case, pl_cbct, pl_out>>

NextPipeline ==
    \/ PipelineCall
    \/ PipelineVerdict

SpecPipeline == InitPipeline /\ [][NextPipeline]_vars

----------------------------------------------------------------------------
(* Claims about the per-case pipeline (SpecPipeline)                       *)

PipelineReturned == ~pl_out.pending /\ ~pl_out.raised

\* The cbct directory the case record names is on disk.
CbctThere == pl_case.cbct_dir = "." \/ pl_cbct

ScanThere == pl_case.ios_path # <<>>

GroundTruth == pl_case.ground_truth_implants.items

\* C27: guide_generated is true iff registration is ok (the CBCT directory
\* exists and an intraoral-scan path is present) and at least one implant was
\* planned; the planner plans one implant per ground-truth implant, so
\* guide_generated is false for every case with an empty ground-truth list or
\* without a scan file.
C27_GuideGenerated ==
    PipelineReturned =>
       LET planned == pseudo_planned_implants(pl_case.ground_truth_implants, pl_case.case_id)
       IN  /\ Len(planned.items) = Len(GroundTruth)
           /\ pl_out.metrics.guide_generated
                 <=> (CbctThere /\ ScanThere /\ Len(planned.items) >= 1)
           /\ (GroundTruth = <<>> \/ ~ScanThere) => ~pl_out.metrics.guide_generated

\* Witness of C27: a case with its CBCT directory and two ground-truth
\* implants but no scan file: no guide.
C27_Witness ==
    /\ PipelineReturned
    /\ CbctThere /\ pl_case.cbct_dir = "cbct"
    /\ ~ScanThere
    /\ Len(GroundTruth) = 2
    /\ ~pl_out.metrics.guide_generated

----------------------------------------------------------------------------
(* Claims about the exit code and the planner (SpecRun, SpecPipeline)      *)

AllPassed == \A i \in 1..Len(results) : results[i].passed

AllGuides == \A i \in 1..Len(results) : results[i].guide_generated

\* C28: the guide-success-rate gate never decides the exit code on its own:
\* run_validation returns 0 iff every recorded case has passed; when all cases
\* pass every case has its guide, so the rate is 1 and above the minimum; and
\* the case list is never empty (a dataset root without subdirectories is
\* itself the one case), so the zero-case rate is never taken.
C28_RateGateNeverDecides ==
    /\ rv_pc \notin {"start", "collect"} /\ rv_raised # "FileNotFoundError" /\ argv_validate = "path"
          => Len(case_dirs) >= 1
    /\ rv_pc \in {"csv", "html", "return"} => Len(results) >= 1
    /\ \A i \in 1..Len(results) : results[i].passed => results[i].guide_generated
    /\ Returned =>
          /\ Len(results) >= 1
          /\ exit_code = 0 <=> AllPassed
          /\ exit_code = 1 <=> ~AllPassed
          /\ AllPassed =>
                /\ AllGuides
                /\ 100 * Count(results, "guide_generated") = 100 * Len(results)
                /\ 100 * Count(results, "guide_generated")
                      > THRESHOLDS.min_guide_success_rate * Len(results)

\* Witness of C28: the dataset root has no subdirectory, is taken as the one
\* case, passes, and the run returns 0.
C28_Witness ==
    /\ Returned
    /\ dataset.subdirs = {}
    /\ case_dirs = <<0>>
    /\ Len(results) = 1 /\ results[1].case_id = "dataset"
    /\ AllPassed
    /\ exit_code = 0

\* The seed of the case, its sign and its jitter (runner.py:27-29).
Seed == stable_seed(pl_case.case_id)

SeedSign == IF Seed % 2 = 1 THEN -1 ELSE 1

\* The planner's offset in units of 0.01 mm: (0.2*s + (seed mod 8)/100, 0.1*s, 0.15*s).
PlannerOffset == [x |-> 20 * SeedSign + (Seed % 8), y |-> 10 * SeedSign, z |-> 15 * SeedSign]

\* What the planner returns for the case.
Planned == pseudo_planned_implants(pl_case.ground_truth_implants, pl_case.case_id).items

\* planned - ground truth in float arithmetic equals the offset, per coordinate.
OffsetBy(p, g, key) ==
    LET d == float_sub(coordinate(p, key), coordinate(g, key))
    IN  d # NotFinite /\ d = PlannerOffset[key]

\* Every coordinate of the ground truth is a finite number.
FiniteGroundTruth ==
    \A i \in 1..Len(GroundTruth) : \A key \in {"x", "y", "z"} :
        coordinate(GroundTruth[i], key) # NotFinite

\* The statement of C29 for the case in hand.
PlannerNeverFailsRmse ==
    /\ Len(Planned) = Len(GroundTruth)
    /\ \A i \in 1..Len(GroundTruth) : \A key \in {"x", "y", "z"} :
          OffsetBy(Planned[i], GroundTruth[i], key)
    /\ float_le(pl_out.metrics.rmse, 330)
    /\ float_le(pl_out.metrics.rmse, THRESHOLDS.max_rmse)
    /\ pl_out.metrics.min_canal_distance = 1800 + (200 * (Seed % 7))
    /\ pl_out.metrics.min_canal_distance < THRESHOLDS.min_canal_distance <=> Seed % 7 = 0
    /\ pl_passed # <<>> =>
          (pl_passed[1] <=> (pl_out.metrics.guide_generated /\ Seed % 7 # 0))

----------------------------------------------------------------------------
(* Claims about the result of robust_boolean_difference (SpecGuide)        *)

\* The keys of the failure_artifacts of the result.
ArtifactKeys == {a.key : a \in result.debug_parts.failure_artifacts}

\* C30: in every result robust_boolean_difference returns the status agrees
\* with the debug fields: failed implies no guide, no attempts, no failure
\* artifacts and a reason; fallback holds iff fallback_mode is channel_only iff
\* the failure artifacts hold params and snapshot; success implies no
\* fallback_mode, no failure artifacts, a non-empty attempts list whose last
\* label names the operand order that produced the returned mesh.
C30_StatusAgreesWithDebug ==
    pc = "returned" =>
       LET d == result.debug_parts
       IN  /\ result.status \in Statuses
           /\ result.status = "failed" =>
                 /\ IsNone(result.guide_polydata)
                 /\ d.attempts = <<>>
                 /\ d.failure_artifacts = {}
                 /\ d.reason # ""
           /\ result.status = "fallback" <=> d.fallback_mode = "channel_only"
           /\ d.fallback_mode = "channel_only" <=> {"params", "snapshot"} \subseteq ArtifactKeys
           /\ d.fallback_mode \in {"None", "channel_only"}
           /\ result.status = "success" =>
                 /\ d.fallback_mode = "None"
                 /\ d.failure_artifacts = {}
                 /\ d.attempts # <<>>
                 /\ d.attempts[Len(d.attempts)] = tried[Len(tried)].label
                 /\ result.guide_polydata = tried[Len(tried)].output
                 /\ result.guide_polydata.ops = OperandsOf(d.attempts[Len(d.attempts)])

\* Witness of C30: the first attempt raised, the second gave the mesh: status
\* success, and the one label recorded is subtract-minus-base.
C30_Witness ==
    /\ pc = "returned"
    /\ result.status = "success"
    /\ Len(tried) = 2 /\ tried[1].raised
    /\ result.debug_parts.attempts = <<LabelAlternate>>
    /\ result.guide_polydata.ops = <<"subtract", "base">>

====
